---- MODULE Spec2Model ----
(***************************************************************************)
(* State-machine model of the TVmaze indexer client of SickRage            *)
(* (lib/pytvmaze/pytvmaze_api.py): the retry decorator, the ShowContainer  *)
(* cache and the integer-key lookup of the TVmaze client.                  *)
(***************************************************************************)
EXTENDS Integers, Sequences, FiniteSets, TLC

----------------------------------------------------------------------------
(* Bounds of the model *)

\* number of distinct keys the driver inserts into the cache
MaxKeys == 104
\* the clock stops advancing at this time
MaxNow == 41
\* largest attempt budget (tries) given to the retry decorator
MaxTries == 4

(* Program constants *)

\* self._stack[:-100] / self._stack[-100:]
KeepLatest == 100
\* time.time() - self._lastgc > 20
GcInterval == 20
\* def retry(ExceptionToCheck, tries=4, ...), as applied by @retry(tvmaze_error)
DefaultTries == 4
\* def retry(ExceptionToCheck, tries=4, delay=3, backoff=2, ...)
DefaultDelay == 3
DefaultBackoff == 2

\* amounts by which the clock advances between two operations: exactly the
\* sweep interval, and just beyond it
TickSteps == {GcInterval, GcInterval + 1}

\* ids for which the upstream service may fail to answer
FlakyIds == {1}

\* keys the driver inserts a second time (once each), and keys it looks up
ReinsertKeys == {1}
ProbeKeys == {1}

\* initial delays and backoff multipliers given to the retry decorator
\* (the defaults are delay=3, backoff=2)
Delays == {1, 3}
Backoffs == {1, 2}

\* what one invocation of the decorated function does: return, raise an
\* instance of ExceptionToCheck, or raise some other exception
Outcomes == {"ok", "ExceptionToCheck", "other"}

----------------------------------------------------------------------------
(* State *)

VARIABLES
    shows,      \* ShowContainer as a dict: key -> Show instance
    _stack,     \* ShowContainer._stack: the retention sequence of keys
    _lastgc,    \* ShowContainer._lastgc: time of the last sweep
    now,        \* time.time()
    op,         \* the operation performed last
    arg,        \* the key it was given
    gc,         \* whether that operation entered the sweep branch
    raised,     \* whether that operation raised
    result,     \* what that operation returned
    nextKey,    \* the driver's next fresh key
    nextShow,   \* the next Show instance to be created
    reinserted, \* the keys inserted a second time so far
    tries,      \* retry(ExceptionToCheck, tries, delay, backoff)
    delay,
    backoff,
    f,          \* the decorated function: invocation number -> outcome
    mtries,     \* f_retry's remaining attempts
    mdelay,     \* f_retry's current delay
    pc,         \* f_retry's position
    calls,      \* invocations of f so far
    slept,      \* the time.sleep() calls so far, in order
    events,     \* the delays announced by the warnings logged so far
    outcome,    \* how f_retry ended
    retval,     \* what f_retry returned
    requests,   \* HTTP requests issued by the operation performed last
    got,        \* id -> the Show the last getShow(id) returned, for the ids
                \* no sweep has removed since
    transport,  \* what the transport does on each attempt: attempt -> outcome
    via,        \* the request path in use: _getetsrc or _query
    surfaced,   \* what the caller of the request path received
    subject,    \* the Show being indexed: its seasons and episodes, and the names in its data
    indexed,    \* the last indexing made on it: entity, key and what came of it
    dvdorder,   \* config[dvdorder]: whether disc order is requested
    epsBody,    \* the body of the episode-list response: a list, or null
    episodes,   \* the episode records of that list, as map_data returns them
    idx,        \* the record the loop of _getShowData is at
    heap,       \* Show instance -> its data and its tree of seasons and episodes
    warnings,   \* warnings logged by _getShowData so far
    error,      \* the exception getShow ended with
    stage,      \* the position of getShow
    catalog,    \* the upstream search: name -> the ids of the candidates, in order
    selected,   \* the id the last byName selected
    merged,     \* Show instance -> the sources whose fields were stored in it
    custom_ui,  \* config[custom_ui]: none, or an injected selection strategy
    ui,         \* what the selection strategy did in the operation performed last
    valuesOrder,\* the order in which values() yields the seasons of the Show and the episodes of each Season
    found,      \* the last search made: where, term, key and the Episodes returned
    actors_enabled, \* config[actors_enabled]: whether the cast is fetched
    upstream,   \* the show object the upstream returned: field -> JSON value
    normalizer, \* the normalization applied last
    normalized, \* the record it returned: field -> value
    caller,     \* each concurrent caller of __setitem__: its position, key, slice of the stack and place in it
    history,    \* the rows of the history table
    tv_shows,   \* the tv_shows table: indexer_id to show_name
    answer,     \* the last call of History.get: its arguments and what came of it
    amActive,   \* DailySearcher.amActive
    network_dict,\* whether network_timezones.network_dict holds entries
    showList,   \* sickbeard.showList
    tv_episodes,\* the episodes, in memory and in the tv_episodes table
    runner,     \* each thread that calls DailySearcher.run: where it is and what its call has done
    params_getSeries,\* config[params_getSeries][q], the one search parameter of the client
    searcher    \* each thread that calls search: where it is, the name it asked for, what its request carried and what it got

cacheVars == <<shows, _stack, _lastgc, now, op, arg, gc, raised, result,
               nextKey, nextShow, reinserted>>
retryVars == <<tries, delay, backoff, f, mtries, mdelay, pc, calls, slept,
               events, outcome, retval>>
clientVars == <<requests, got>>
netVars == <<transport, via, surfaced>>
indexVars == <<subject, indexed>>
ingestVars == <<dvdorder, epsBody, episodes, idx, heap, warnings, error, stage>>
lookupVars == <<catalog, selected, merged>>
uiVars == <<custom_ui, ui>>
searchVars == <<valuesOrder, found>>
castVars == <<actors_enabled>>
normVars == <<upstream, normalizer, normalized>>
raceVars == <<caller>>
histVars == <<history, tv_shows, answer>>
dailyVars == <<amActive, network_dict, showList, tv_episodes, runner>>
termVars == <<params_getSeries, searcher>>
extVars == <<netVars, indexVars, ingestVars, lookupVars, uiVars, searchVars, castVars, normVars, raceVars, histVars, dailyVars, termVars>>
vars == <<cacheVars, retryVars, clientVars, extVars>>

\* what the actions of one part of the model leave alone
otherThanNet == <<cacheVars, clientVars, indexVars, ingestVars, lookupVars, uiVars, searchVars, castVars, normVars, raceVars, histVars, dailyVars, termVars>>
otherThanIndex == <<cacheVars, retryVars, clientVars, netVars, ingestVars, lookupVars, uiVars, searchVars, castVars, normVars, raceVars, histVars, dailyVars, termVars>>
otherThanIngest == <<retryVars, clientVars, netVars, indexVars, lookupVars, uiVars, searchVars, castVars, normVars, raceVars, histVars, dailyVars, termVars>>
otherThanLookup == <<retryVars, got, netVars, indexVars, searchVars, castVars, normVars, raceVars, histVars, dailyVars, termVars>>
otherThanSearch == <<cacheVars, retryVars, clientVars, netVars, indexed, ingestVars, lookupVars, uiVars, castVars, normVars, raceVars, histVars, dailyVars, termVars>>
otherThanNorm == <<cacheVars, retryVars, clientVars, netVars, indexVars, ingestVars, lookupVars, uiVars, searchVars, castVars, raceVars, histVars, dailyVars, termVars>>
otherThanRace == <<op, arg, gc, raised, result, nextKey, nextShow, reinserted, retryVars, clientVars, netVars, indexVars, ingestVars, lookupVars, uiVars, searchVars, castVars, normVars, histVars, dailyVars, termVars>>
otherThanHist == <<cacheVars, retryVars, clientVars, netVars, indexVars, ingestVars, lookupVars, uiVars, searchVars, castVars, normVars, raceVars, dailyVars, termVars>>
otherThanDaily == <<cacheVars, retryVars, clientVars, netVars, indexVars, ingestVars, lookupVars, uiVars, searchVars, castVars, normVars, raceVars, histVars, termVars>>
otherThanTerm == <<cacheVars, retryVars, clientVars, netVars, indexVars, ingestVars, lookupVars, uiVars, searchVars, castVars, normVars, raceVars, histVars, dailyVars>>

----------------------------------------------------------------------------
(* ShowContainer *)

Range(s) == {s[i] : i \in DOMAIN s}

\* dict.__delitem__ on a key that is present
DelItem(d, o) == [k \in (DOMAIN d) \ {o} |-> d[k]]

\* dict.__setitem__
PutItem(d, key, value) == [k \in (DOMAIN d) \cup {key} |-> IF k = key THEN value ELSE d[k]]

\* self._stack[:-100]
Older(s) == IF Len(s) > KeepLatest THEN SubSeq(s, 1, Len(s) - KeepLatest) ELSE <<>>

\* self._stack[-100:]
Latest(s) == IF Len(s) > KeepLatest THEN SubSeq(s, Len(s) - KeepLatest + 1, Len(s)) ELSE s

\* variant of GcDue: the sweep is already due when exactly 20 time units
\* have elapsed
GcDueAtInterval(t, last) == t - last >= GcInterval

\* time.time() - self._lastgc > 20
GcDue(t, last) == t - last > GcInterval

\* for o in self._stack[:-100]: del self[o]
\* del of a key that is not in the dict raises KeyError and ends the loop
RECURSIVE Sweep(_, _, _)
Sweep(d, old, i) ==
    IF i > Len(old) THEN [shows |-> d, raised |-> FALSE]
    ELSE IF old[i] \notin DOMAIN d THEN [shows |-> d, raised |-> TRUE]
    ELSE Sweep(DelItem(d, old[i]), old, i + 1)

\* ShowContainer.__setitem__(key, value) at time t on the container c
SetItem(c, key, value, t) ==
    LET st == Append(c.stack, key) IN
    IF GcDue(t, c.lastgc)
    THEN LET sw == Sweep(c.shows, Older(st), 1) IN
         IF sw.raised
         THEN [shows |-> sw.shows, stack |-> st, lastgc |-> c.lastgc, raised |-> TRUE]
         ELSE [shows |-> PutItem(sw.shows, key, value), stack |-> Latest(st),
               lastgc |-> t, raised |-> FALSE]
    ELSE [shows |-> PutItem(c.shows, key, value), stack |-> st,
          lastgc |-> c.lastgc, raised |-> FALSE]

\* the ShowContainer of the current state
Container == [shows |-> shows, stack |-> _stack, lastgc |-> _lastgc, raised |-> FALSE]

----------------------------------------------------------------------------
(* Operations on a ShowContainer used directly *)

\* keys the driver may insert: the next fresh key, or a key of ReinsertKeys again
FreshKeys == IF nextKey <= MaxKeys THEN {nextKey} ELSE {}
RepeatKeys == {k \in ReinsertKeys \ reinserted : k < nextKey}

\* a new ShowContainer; the client has done nothing and f_retry is not running
CacheInit ==
    /\ shows = <<>>
    /\ _stack = <<>>
    /\ _lastgc = 0
    /\ now = 0
    /\ op = "init"
    /\ arg = 0
    /\ gc = FALSE
    /\ raised = FALSE
    /\ result = 0
    /\ nextKey = 1
    /\ nextShow = 1
    /\ reinserted = {}
    /\ requests = 0
    /\ got = <<>>
    /\ tries = 0
    /\ delay = 0
    /\ backoff = 0
    /\ f = <<>>
    /\ mtries = 0
    /\ mdelay = 0
    /\ pc = "idle"
    /\ calls = 0
    /\ slept = <<>>
    /\ events = <<>>
    /\ outcome = "none"
    /\ retval = 0
    /\ transport = <<>>
    /\ via = "none"
    /\ surfaced = "none"
    /\ subject = <<>>
    /\ indexed = <<>>
    /\ dvdorder = FALSE
    /\ epsBody = "none"
    /\ episodes = <<>>
    /\ idx = 0
    /\ heap = <<>>
    /\ warnings = 0
    /\ error = "none"
    /\ stage = "idle"
    /\ catalog = <<>>
    /\ selected = 0
    /\ merged = <<>>
    /\ custom_ui = "none"
    /\ ui = "not invoked"
    /\ valuesOrder = <<>>
    /\ found = <<>>
    /\ actors_enabled = FALSE
    /\ upstream = <<>>
    /\ normalizer = "none"
    /\ normalized = <<>>
    /\ caller = <<>>
    /\ history = {}
    /\ tv_shows = <<>>
    /\ answer = <<>>
    /\ amActive = FALSE
    /\ network_dict = FALSE
    /\ showList = <<>>
    /\ tv_episodes = <<>>
    /\ runner = <<>>
    /\ params_getSeries = ""
    /\ searcher = <<>>

\* container[key] = Show()
CacheSetItem ==
    \E key \in FreshKeys \cup RepeatKeys :
        LET r == SetItem(Container, key, nextShow, now) IN
        /\ shows' = r.shows
        /\ _stack' = r.stack
        /\ _lastgc' = r.lastgc
        /\ raised' = r.raised
        /\ gc' = GcDue(now, _lastgc)
        /\ op' = "setitem"
        /\ arg' = key
        /\ result' = 0
        /\ nextShow' = nextShow + 1
        /\ nextKey' = IF key = nextKey THEN nextKey + 1 ELSE nextKey
        /\ reinserted' = IF key = nextKey THEN reinserted ELSE reinserted \cup {key}
        /\ UNCHANGED <<now, retryVars, clientVars, extVars>>

\* variant of CacheGetItem: a key read that also records the key as
\* recently used
CacheGetItemTouching ==
    \E key \in ProbeKeys :
        /\ op' = "getitem"
        /\ arg' = key
        /\ gc' = FALSE
        /\ raised' = (key \notin DOMAIN shows)
        /\ result' = IF key \in DOMAIN shows THEN shows[key] ELSE 0
        /\ _stack' = Append(_stack, key)
        /\ UNCHANGED <<shows, _lastgc, now, nextKey, nextShow, reinserted, retryVars, clientVars, extVars>>

\* container[key]
CacheGetItem ==
    \E key \in ProbeKeys :
        /\ op' = "getitem"
        /\ arg' = key
        /\ gc' = FALSE
        /\ raised' = (key \notin DOMAIN shows)
        /\ result' = IF key \in DOMAIN shows THEN shows[key] ELSE 0
        /\ UNCHANGED <<shows, _stack, _lastgc, now, nextKey, nextShow, reinserted, retryVars, clientVars, extVars>>

\* key in container
CacheContains ==
    \E key \in ProbeKeys :
        /\ op' = "contains"
        /\ arg' = key
        /\ gc' = FALSE
        /\ raised' = FALSE
        /\ result' = IF key \in DOMAIN shows THEN 1 ELSE 0
        /\ UNCHANGED <<shows, _stack, _lastgc, now, nextKey, nextShow, reinserted, retryVars, clientVars, extVars>>

\* time passes
Tick ==
    \E d \in TickSteps :
        /\ now + d <= MaxNow
        /\ now' = now + d
        /\ op' = "tick"
        /\ arg' = 0
        /\ gc' = FALSE
        /\ raised' = FALSE
        /\ result' = 0
        /\ UNCHANGED <<shows, _stack, _lastgc, nextKey, nextShow, reinserted, retryVars, clientVars, extVars>>

CacheNext == CacheSetItem \/ CacheGetItem \/ CacheContains \/ Tick

SpecCache == CacheInit /\ [][CacheNext]_vars

----------------------------------------------------------------------------
(* Properties of the ShowContainer, checked under SpecCache *)

\* C2: immediately after an insertion made more than 20 time units after the
\* last sweep, the cache holds at most 100 keys.
C2_SweptCacheHoldsAtMost100 ==
    (op = "setitem" /\ gc) => Cardinality(DOMAIN shows) <= KeepLatest

\* C3: after a sweep has run, every key whose most recent insertion is among
\* the 100 most recent insertions is still present, even when an older
\* insertion of that key lies outside them.
C3_RecentlyInsertedKeySurvives ==
    (op = "setitem" /\ gc /\ ~raised) => Range(Latest(_stack)) \subseteq DOMAIN shows

\* C4: an insertion that triggers a sweep evicts exactly the keys of the
\* retention sequence outside its 100 most recent entries, cuts the retention
\* sequence to its last 100 entries and resets the sweep timestamp to the
\* current time.
C4_SweepEvictsCutsAndResets ==
    [][(op' = "setitem" /\ now - _lastgc > GcInterval) =>
            LET st == Append(_stack, arg') IN
            /\ DOMAIN shows' = ((DOMAIN shows) \ Range(Older(st))) \cup {arg'}
            /\ _stack' = Latest(st)
            /\ _lastgc' = now]_vars

\* C5: an insertion made when at most 20 time units have elapsed since the
\* last sweep evicts nothing: every key present before it is present after it
\* (with the same Show unless it is the inserted key), and it does not raise.
C5_InsertionWithoutSweepEvictsNothing ==
    [][(op' = "setitem" /\ now - _lastgc <= GcInterval) =>
            /\ ~raised'
            /\ arg' \in DOMAIN shows'
            /\ \A k \in DOMAIN shows :
                  k \in DOMAIN shows' /\ (k # arg' => shows'[k] = shows[k])]_vars

\* C5 witness: an insertion exactly 20 time units after the last sweep has
\* left more than 100 keys in the cache.
C5_Witness ==
    /\ op = "setitem"
    /\ ~gc
    /\ now - _lastgc = GcInterval
    /\ Cardinality(DOMAIN shows) > KeepLatest

\* C6: a lookup (key read or membership test) leaves the key set, the stored
\* Show instances, the retention sequence and the sweep timestamp unchanged.
C6_LookupChangesNothing ==
    [][op' \in {"getitem", "contains"} =>
            (shows' = shows /\ _stack' = _stack /\ _lastgc' = _lastgc)]_vars

\* C6 witness: a key read that found its Show at a time when an insertion
\* would sweep and evict.
C6_Witness ==
    /\ op = "getitem"
    /\ ~raised
    /\ result = shows[arg]
    /\ now - _lastgc > GcInterval
    /\ Len(_stack) >= KeepLatest

\* C31: every insertion, of a new key or of a key inserted before, ends
\* without an error and leaves the inserted key in the cache.
C31_InsertionNeverRaisesAndKeepsKey ==
    op = "setitem" => (~raised /\ arg \in DOMAIN shows)

----------------------------------------------------------------------------
(* retry(ExceptionToCheck, tries, delay, backoff): f_retry *)

\* variants of KeepTrying: the loop ends one attempt early, or one late
KeepTryingShort(m) == m > 2
KeepTryingLong(m) == m > 0

\* while mtries > 1
KeepTrying(m) == m > 1

\* variant of Caught: a bare except clause
CaughtAny(e) == TRUE

\* except ExceptionToCheck, e
Caught(e) == e = "ExceptionToCheck"

\* variant of NextDelay: the delay grows by the backoff instead of by its
\* multiple
NextDelayAdded(d, b) == d + b

\* mdelay *= backoff
NextDelay(d, b) == d * b

\* f_retry is about to run; the ShowContainer is new and unused
RetryInit ==
    /\ tries \in 1..MaxTries
    /\ delay \in Delays
    /\ backoff \in Backoffs
    /\ f \in [1..(MaxTries + 1) -> Outcomes]
    /\ mtries = 0
    /\ mdelay = 0
    /\ pc = "start"
    /\ calls = 0
    /\ slept = <<>>
    /\ events = <<>>
    /\ outcome = "none"
    /\ retval = 0
    /\ shows = <<>>
    /\ _stack = <<>>
    /\ _lastgc = 0
    /\ now = 0
    /\ op = "init"
    /\ arg = 0
    /\ gc = FALSE
    /\ raised = FALSE
    /\ result = 0
    /\ nextKey = 1
    /\ nextShow = 1
    /\ reinserted = {}
    /\ requests = 0
    /\ got = <<>>
    /\ transport = <<>>
    /\ via = "none"
    /\ surfaced = "none"
    /\ subject = <<>>
    /\ indexed = <<>>
    /\ dvdorder = FALSE
    /\ epsBody = "none"
    /\ episodes = <<>>
    /\ idx = 0
    /\ heap = <<>>
    /\ warnings = 0
    /\ error = "none"
    /\ stage = "idle"
    /\ catalog = <<>>
    /\ selected = 0
    /\ merged = <<>>
    /\ custom_ui = "none"
    /\ ui = "not invoked"
    /\ valuesOrder = <<>>
    /\ found = <<>>
    /\ actors_enabled = FALSE
    /\ upstream = <<>>
    /\ normalizer = "none"
    /\ normalized = <<>>
    /\ caller = <<>>
    /\ history = {}
    /\ tv_shows = <<>>
    /\ answer = <<>>
    /\ amActive = FALSE
    /\ network_dict = FALSE
    /\ showList = <<>>
    /\ tv_episodes = <<>>
    /\ runner = <<>>
    /\ params_getSeries = ""
    /\ searcher = <<>>

\* mtries, mdelay = tries, delay
RetryEnter ==
    /\ pc = "start"
    /\ mtries' = tries
    /\ mdelay' = delay
    /\ pc' = "loop"
    /\ UNCHANGED <<tries, delay, backoff, f, calls, slept, events, outcome, retval, cacheVars, clientVars, extVars>>

\* inside the loop: return f(*args, **kwargs), which returns
RetryCallReturns ==
    /\ pc = "loop"
    /\ KeepTrying(mtries)
    /\ f[calls + 1] = "ok"
    /\ calls' = calls + 1
    /\ outcome' = "returned"
    /\ retval' = calls + 1
    /\ pc' = "done"
    /\ UNCHANGED <<tries, delay, backoff, f, mtries, mdelay, slept, events, cacheVars, clientVars, extVars>>

\* inside the loop: f raises and the except clause handles it:
\* log the warning, time.sleep(mdelay), mtries -= 1, mdelay *= backoff
RetryCallCaught ==
    /\ pc = "loop"
    /\ KeepTrying(mtries)
    /\ f[calls + 1] # "ok"
    /\ Caught(f[calls + 1])
    /\ calls' = calls + 1
    /\ events' = Append(events, mdelay)
    /\ slept' = Append(slept, mdelay)
    /\ mtries' = mtries - 1
    /\ mdelay' = NextDelay(mdelay, backoff)
    /\ UNCHANGED <<tries, delay, backoff, f, pc, outcome, retval, cacheVars, clientVars, extVars>>

\* inside the loop: f raises an exception the except clause does not name
RetryCallUncaught ==
    /\ pc = "loop"
    /\ KeepTrying(mtries)
    /\ f[calls + 1] # "ok"
    /\ ~Caught(f[calls + 1])
    /\ calls' = calls + 1
    /\ outcome' = f[calls + 1]
    /\ pc' = "done"
    /\ UNCHANGED <<tries, delay, backoff, f, mtries, mdelay, slept, events, retval, cacheVars, clientVars, extVars>>

\* after the loop: return f(*args, **kwargs), outside any try
RetryFinalCall ==
    /\ pc = "loop"
    /\ ~KeepTrying(mtries)
    /\ calls' = calls + 1
    /\ outcome' = IF f[calls + 1] = "ok" THEN "returned" ELSE f[calls + 1]
    /\ retval' = IF f[calls + 1] = "ok" THEN calls + 1 ELSE retval
    /\ pc' = "done"
    /\ UNCHANGED <<tries, delay, backoff, f, mtries, mdelay, slept, events, cacheVars, clientVars, extVars>>

RetryNext ==
    \/ RetryEnter
    \/ RetryCallReturns
    \/ RetryCallCaught
    \/ RetryCallUncaught
    \/ RetryFinalCall

SpecRetry == RetryInit /\ [][RetryNext]_vars

----------------------------------------------------------------------------
(* Properties of f_retry, checked under SpecRetry *)

\* the number of invocations of f, from the i-th on, that raise
\* ExceptionToCheck before one does anything else
RECURSIVE FailuresFrom(_)
FailuresFrom(i) ==
    IF i \in DOMAIN f /\ f[i] = "ExceptionToCheck" THEN 1 + FailuresFrom(i + 1) ELSE 0

LeadingFailures == FailuresFrom(1)

RECURSIVE SeqSum(_)
SeqSum(s) == IF s = <<>> THEN 0 ELSE Head(s) + SeqSum(Tail(s))

\* C7: with a budget of N attempts, an operation that fails with the
\* recoverable error k < N times and then succeeds is invoked exactly k+1
\* times and the result of its successful invocation is returned.
C7_FailsThenSucceedsIsCalledKPlus1Times ==
    (pc = "done" /\ LeadingFailures < tries /\ f[LeadingFailures + 1] = "ok") =>
        /\ outcome = "returned"
        /\ calls = LeadingFailures + 1
        /\ retval = LeadingFailures + 1

\* C7 witness: a budget of 4, three failures, success on the fourth invocation.
C7_Witness ==
    /\ pc = "done"
    /\ tries = 4
    /\ LeadingFailures = 3
    /\ outcome = "returned"
    /\ calls = 4

\* the case of C8: 4 attempts, initial delay 3, backoff 2, three failures and
\* then success
C8_Case ==
    /\ pc = "done"
    /\ tries = 4
    /\ delay = 3
    /\ backoff = 2
    /\ LeadingFailures = 3
    /\ f[4] = "ok"

\* C8 as stated: in that case the total elapsed wait is 3+6+9 = 18.
C8_TotalWaitIs18 == C8_Case => SeqSum(slept) = 18

\* C8 amended: in that case the waits are 3, 6 and 12, in total 21.
C8_TotalWaitIs21 == C8_Case => (slept = <<3, 6, 12>> /\ SeqSum(slept) = 21)

\* C8 witness: the case has run to its end with its result returned.
C8_Witness == C8_Case /\ outcome = "returned" /\ Len(slept) = 3

\* C9: with a budget of N >= 1 attempts, an operation that always fails with
\* the recoverable error is invoked exactly N times, waits and announces a
\* retry after each of the first N-1 failures only, and the N-th failure
\* reaches the caller.
C9_AlwaysFailingIsCalledNTimes ==
    (pc = "done" /\ tries >= 1 /\ LeadingFailures >= tries) =>
        /\ outcome = "ExceptionToCheck"
        /\ calls = tries
        /\ Len(slept) = tries - 1
        /\ Len(events) = tries - 1

\* C9 witness: a budget of 4 used up by four failures.
C9_Witness ==
    /\ pc = "done"
    /\ tries = 4
    /\ LeadingFailures >= 4
    /\ outcome = "ExceptionToCheck"
    /\ calls = 4

\* C10: when an invocation fails with an error that is not of the recoverable
\* kind, that error reaches the caller at once: the only waits and retry
\* events are those of the recoverable failures before it, and the operation
\* is not invoked again.
C10_OtherErrorPropagatesAtOnce ==
    (pc = "done" /\ LeadingFailures < tries /\ f[LeadingFailures + 1] = "other") =>
        /\ outcome = "other"
        /\ calls = LeadingFailures + 1
        /\ Len(slept) = LeadingFailures
        /\ Len(events) = LeadingFailures

\* C10 witness: the second of four attempts has failed with another error
\* and ended the run.
C10_Witness ==
    /\ pc = "done"
    /\ tries = 4
    /\ LeadingFailures = 1
    /\ outcome = "other"
    /\ calls = 2
    /\ Len(slept) = 1

----------------------------------------------------------------------------
(* TVmaze.__getitem__ with an integer key: getShow(id) *)

\* variant of Cached: the membership test never succeeds
CachedNever(d, key) == FALSE

\* key in self.shows
Cached(d, key) == key \in DOMAIN d

\* ids the caller may ask for: the next id never asked for, or an id of
\* ProbeKeys again
GetShowIds == FreshKeys \cup {k \in ProbeKeys : k < nextKey}

\* failed attempts the upstream service may answer a request for id with
\* before it answers
FailedAttempts(id) == IF id \in FlakyIds THEN 0..DefaultTries ELSE {0}

\* requests _loadUrl issues under @retry(tvmaze_error) when the first a
\* attempts fail
Attempts(a) == IF a < DefaultTries THEN a + 1 ELSE DefaultTries

\* TVmaze._setShowData(sid, key, value), as far as self.shows is concerned:
\* if sid not in self.shows: self.shows[sid] = Show()
SetShowData(c, sid, show, t) ==
    IF Cached(c.shows, sid)
    THEN [shows |-> c.shows, stack |-> c.stack, lastgc |-> c.lastgc, raised |-> FALSE]
    ELSE SetItem(c, sid, show, t)

\* the ids of g that the container d still holds
StillHeld(g, d) == [k \in {j \in DOMAIN g : j \in DOMAIN d} |-> g[k]]

\* the key is in self.shows: return self.shows[key]
GetShowCached ==
    \E id \in GetShowIds :
        /\ Cached(shows, id)
        /\ op' = "getshow"
        /\ arg' = id
        /\ gc' = FALSE
        /\ raised' = FALSE
        /\ result' = shows[id]
        /\ requests' = 0
        /\ got' = PutItem(got, id, shows[id])
        /\ nextKey' = IF id = nextKey THEN nextKey + 1 ELSE nextKey
        /\ UNCHANGED <<shows, _stack, _lastgc, now, nextShow, reinserted, retryVars, extVars>>

\* the key is not in self.shows: _getShowData(key, language, True), then
\* return self.shows[key].  _getShowData requests the show info, stores its
\* fields with _setShowData (the first of which inserts a new Show into
\* self.shows), requests the episode list and stores the episodes in the Show.
GetShowFetched ==
    \E id \in GetShowIds :
      \E a1 \in FailedAttempts(id), a2 \in FailedAttempts(id) :
        LET r == SetShowData(Container, id, nextShow, now)
            infoFailed == a1 >= DefaultTries
            epsFailed == a2 >= DefaultTries
            inserted == ~infoFailed /\ ~Cached(shows, id)
            after == IF infoFailed THEN Container ELSE r
        IN
        /\ ~Cached(shows, id)
        /\ op' = "getshow"
        /\ arg' = id
        /\ gc' = (inserted /\ GcDue(now, _lastgc))
        /\ shows' = after.shows
        /\ _stack' = after.stack
        /\ _lastgc' = after.lastgc
        /\ nextShow' = IF inserted THEN nextShow + 1 ELSE nextShow
        /\ raised' = (infoFailed \/ after.raised \/ epsFailed)
        /\ requests' = IF infoFailed \/ after.raised THEN Attempts(a1)
                       ELSE Attempts(a1) + Attempts(a2)
        /\ result' = IF raised' THEN 0 ELSE after.shows[id]
        /\ got' = IF raised' THEN StillHeld(got, after.shows)
                  ELSE PutItem(StillHeld(got, after.shows), id, after.shows[id])
        /\ nextKey' = IF id = nextKey THEN nextKey + 1 ELSE nextKey
        /\ UNCHANGED <<now, reinserted, retryVars, extVars>>

ClientNext == GetShowCached \/ GetShowFetched \/ Tick

\* a new TVmaze client: an empty self.shows, no request made
ClientInit == CacheInit

SpecClient == ClientInit /\ [][ClientNext]_vars

----------------------------------------------------------------------------
(* Properties of getShow, checked under SpecClient *)

\* C1: once getShow(id) has returned a Show and no sweep has removed id since,
\* another getShow(id) returns the identical Show instance and issues no
\* network request.
C1_SecondGetShowReturnsSameInstance ==
    [][(op' = "getshow" /\ arg' \in DOMAIN got) =>
            (~raised' /\ result' = got[arg'] /\ requests' = 0)]_vars

\* C1 witness: a getShow(id) has returned, without a request, the Show an
\* earlier getShow(id) had fetched, after a sweep that evicted other ids.
C1_Witness ==
    /\ op = "getshow"
    /\ ~raised
    /\ requests = 0
    /\ arg \in DOMAIN got
    /\ result = got[arg]
    /\ _lastgc > 0
    /\ nextKey > KeepLatest + 2

\* C32: when getShow(id) raises, no Show for id is left in the cache, so
\* that the next getShow(id) fetches again.
C32_FailedGetShowLeavesNoShow ==
    (op = "getshow" /\ raised) => ~(arg \in DOMAIN shows)

----------------------------------------------------------------------------
(* The two request paths of the client: _getetsrc -> _loadUrl under        *)
(* @retry(tvmaze_error), and _query                                        *)

\* what session.get / raise_for_status / urllib2.urlopen does on one attempt
TransportOutcomes == {"ok", "HTTPError", "ConnectionError", "Timeout", "Exception"}

\* variant of LoadUrlBody: the except clause for Timeout is missing
LoadUrlBodyTimeoutEscapes(t) ==
    IF t = "ok" THEN "ok" ELSE IF t = "Timeout" THEN "Timeout" ELSE "tvmaze_error"

\* the body of _loadUrl on one attempt: every except clause (HTTPError,
\* ConnectionError, Timeout, Exception) raises tvmaze_error
LoadUrlBody(t) == IF t = "ok" THEN "ok" ELSE "tvmaze_error"

\* @retry(tvmaze_error): the decorator's ExceptionToCheck is tvmaze_error
AsSeenByRetry(e) ==
    IF e = "ok" THEN "ok" ELSE IF e = "tvmaze_error" THEN "ExceptionToCheck" ELSE "other"

\* a request is about to be made on one of the two paths
NetInit ==
    /\ transport \in [1..(DefaultTries + 1) -> TransportOutcomes]
    /\ via \in {"_getetsrc", "_query"}
    /\ surfaced = "none"
    /\ tries = DefaultTries
    /\ delay = DefaultDelay
    /\ backoff = DefaultBackoff
    /\ f = <<>>
    /\ mtries = 0
    /\ mdelay = 0
    /\ pc = "start"
    /\ calls = 0
    /\ slept = <<>>
    /\ events = <<>>
    /\ outcome = "none"
    /\ retval = 0
    /\ shows = <<>>
    /\ _stack = <<>>
    /\ _lastgc = 0
    /\ now = 0
    /\ op = "init"
    /\ arg = 0
    /\ gc = FALSE
    /\ raised = FALSE
    /\ result = 0
    /\ nextKey = 1
    /\ nextShow = 1
    /\ reinserted = {}
    /\ requests = 0
    /\ got = <<>>
    /\ subject = <<>>
    /\ indexed = <<>>
    /\ dvdorder = FALSE
    /\ epsBody = "none"
    /\ episodes = <<>>
    /\ idx = 0
    /\ heap = <<>>
    /\ warnings = 0
    /\ error = "none"
    /\ stage = "idle"
    /\ catalog = <<>>
    /\ selected = 0
    /\ merged = <<>>
    /\ custom_ui = "none"
    /\ ui = "not invoked"
    /\ valuesOrder = <<>>
    /\ found = <<>>
    /\ actors_enabled = FALSE
    /\ upstream = <<>>
    /\ normalizer = "none"
    /\ normalized = <<>>
    /\ caller = <<>>
    /\ history = {}
    /\ tv_shows = <<>>
    /\ answer = <<>>
    /\ amActive = FALSE
    /\ network_dict = FALSE
    /\ showList = <<>>
    /\ tv_episodes = <<>>
    /\ runner = <<>>
    /\ params_getSeries = ""
    /\ searcher = <<>>

\* _getetsrc calls self._loadUrl: f_retry starts with mtries, mdelay = tries, delay
LoadUrlEnter ==
    /\ via = "_getetsrc"
    /\ pc = "start"
    /\ mtries' = tries
    /\ mdelay' = delay
    /\ pc' = "loop"
    /\ UNCHANGED <<tries, delay, backoff, f, calls, slept, events, outcome, retval,
                   transport, via, surfaced, otherThanNet>>

\* one attempt of _loadUrl inside f_retry's loop
LoadUrlAttempt ==
    /\ via = "_getetsrc"
    /\ pc = "loop"
    /\ KeepTrying(mtries)
    /\ LET e == AsSeenByRetry(LoadUrlBody(transport[calls + 1])) IN
        /\ calls' = calls + 1
        /\ IF e = "ok"
           THEN /\ outcome' = "returned"
                /\ pc' = "done"
                /\ UNCHANGED <<mtries, mdelay, slept, events>>
           ELSE IF Caught(e)
           THEN /\ events' = Append(events, mdelay)
                /\ slept' = Append(slept, mdelay)
                /\ mtries' = mtries - 1
                /\ mdelay' = NextDelay(mdelay, backoff)
                /\ UNCHANGED <<pc, outcome>>
           ELSE /\ outcome' = LoadUrlBody(transport[calls + 1])
                /\ pc' = "done"
                /\ UNCHANGED <<mtries, mdelay, slept, events>>
    /\ UNCHANGED <<tries, delay, backoff, f, retval, transport, via, surfaced, otherThanNet>>

\* the attempt after f_retry's loop, outside any try
LoadUrlFinalAttempt ==
    /\ via = "_getetsrc"
    /\ pc = "loop"
    /\ ~KeepTrying(mtries)
    /\ calls' = calls + 1
    /\ outcome' = IF LoadUrlBody(transport[calls + 1]) = "ok" THEN "returned"
                  ELSE LoadUrlBody(transport[calls + 1])
    /\ pc' = "done"
    /\ UNCHANGED <<tries, delay, backoff, f, mtries, mdelay, slept, events, retval,
                   transport, via, surfaced, otherThanNet>>

\* _getetsrc: return self._loadUrl(...); except Exception, e: raise tvmaze_error(e)
GetEtSrc ==
    /\ via = "_getetsrc"
    /\ pc = "done"
    /\ surfaced' = IF outcome = "returned" THEN "data" ELSE "tvmaze_error"
    /\ pc' = "surfaced"
    /\ UNCHANGED <<tries, delay, backoff, f, mtries, mdelay, calls, slept, events,
                   outcome, retval, transport, via, otherThanNet>>

\* _query(url), used by lookup_tvrage, lookup_tvdb, get_schedule and
\* get_full_schedule: urllib2.urlopen(url).read() inside try / except: return None
Query ==
    /\ via = "_query"
    /\ pc = "start"
    /\ calls' = 1
    /\ outcome' = "returned"
    /\ surfaced' = IF transport[1] = "ok" THEN "data" ELSE "None"
    /\ pc' = "surfaced"
    /\ UNCHANGED <<tries, delay, backoff, f, mtries, mdelay, slept, events, retval,
                   transport, via, otherThanNet>>

NetNext == LoadUrlEnter \/ LoadUrlAttempt \/ LoadUrlFinalAttempt \/ GetEtSrc \/ Query

SpecNet == NetInit /\ [][NetNext]_vars

----------------------------------------------------------------------------
(* Properties of the request paths, checked under SpecNet *)

\* the number of attempts, from the i-th on, on which the transport fails
\* before it answers
RECURSIVE TransportFailuresFrom(_)
TransportFailuresFrom(i) ==
    IF i \in DOMAIN transport /\ transport[i] # "ok"
    THEN 1 + TransportFailuresFrom(i + 1) ELSE 0

\* C11: on the _getetsrc path every kind of transport failure is retried as
\* the recoverable indexer-error: the request is attempted at most 4 times,
\* fewer than 4 failures of any kind end in the data being returned, and 4
\* failures end in an indexer-error at the caller, never in the transport's
\* own exception.
C11_TransportFailuresAreRetriedThenIndexerError ==
    (pc = "surfaced" /\ via = "_getetsrc") =>
        /\ calls <= 4
        /\ surfaced \in {"data", "tvmaze_error"}
        /\ TransportFailuresFrom(1) < 4 =>
              (surfaced = "data" /\ calls = TransportFailuresFrom(1) + 1)
        /\ TransportFailuresFrom(1) >= 4 => (surfaced = "tvmaze_error" /\ calls = 4)

\* C11 witness: four attempts failed in four different ways and the caller
\* received the indexer-error.
C11_Witness ==
    /\ pc = "surfaced"
    /\ via = "_getetsrc"
    /\ Cardinality({transport[i] : i \in 1..4}) = 4
    /\ TransportFailuresFrom(1) >= 4
    /\ calls = 4
    /\ surfaced = "tvmaze_error"

\* C12: a transport failure on the _query path is retried, and when every
\* attempt fails the caller receives an indexer-error, not a normal return
\* value.
C12_QueryFailureIsRetriedThenIndexerError ==
    (pc = "surfaced" /\ via = "_query" /\ TransportFailuresFrom(1) >= 4) =>
        (surfaced = "tvmaze_error" /\ calls = 4)

----------------------------------------------------------------------------
(* Indexing a Show, a Season and an Episode                                *)

\* a Python int key, and a Python str key as the sequence of its characters
IntKey(n) == [type |-> "int", n |-> n, s |-> <<>>]
StrKey(s) == [type |-> "str", n |-> 0, s |-> s]

DigitChars == {"0", "1", "2", "3", "4", "5", "6", "7", "8", "9"}

\* variant of IsDigit: no string counts as numeric
IsDigitNever(s) == FALSE

\* str.isdigit(): at least one character and every character a digit
IsDigit(s) == Len(s) > 0 /\ \A i \in 1..Len(s) : s[i] \in DigitChars

\* the names an Episode or a Show's data may hold, and the keys tried
NameId == <<"i", "d">>
NameSeven == <<"7">>
EpisodeNames == {NameId}
DataNames == {NameId, NameSeven}
SeasonNumbers == {1, 2}
EpisodeNumbers == {1, 2}
IndexKeys ==
    {IntKey(1), IntKey(2), IntKey(3),
     StrKey(<<"1">>), StrKey(<<"7">>), StrKey(<<"1", "2">>),
     StrKey(NameId), StrKey(<<"x">>), StrKey(<<"1", "x">>), StrKey(<<>>)}

\* the Shows _setItem and _setShowData can build: every Season holds at least
\* one Episode and every Episode at least one field; seasons and episodes are
\* keyed by int, fields and data by str
Seasons == UNION {[E -> {EpisodeNames}] : E \in (SUBSET EpisodeNumbers) \ {{}}}
Trees == UNION {[S -> Seasons] : S \in SUBSET SeasonNumbers}

\* key in self, for a Show or a Season (keyed by int)
InDict(d, key) == key.type = "int" /\ key.n \in DOMAIN d

\* key in self.data, and key in an Episode (keyed by str)
InNames(names, key) == key.type = "str" /\ key.s \in names

\* Show.__getitem__(key)
ShowGetItem(sh, key) ==
    IF InDict(sh.tree, key) THEN "Season"
    ELSE IF InNames(sh.data, key) THEN "value"
    ELSE IF key.type = "int" \/ IsDigit(key.s) THEN "tvmaze_seasonnotfound"
    ELSE "tvmaze_attributenotfound"

\* Season.__getitem__(episode_number)
SeasonGetItem(season, key) ==
    IF ~InDict(season, key) THEN "tvmaze_episodenotfound" ELSE "Episode"

\* Episode.__getitem__(key): dict.__getitem__, KeyError -> tvmaze_attributenotfound
EpisodeGetItem(episode, key) ==
    IF InNames(episode, key) THEN "value" ELSE "tvmaze_attributenotfound"

\* no indexing made yet
NotIndexed == [on |-> "none", season |-> 0, episode |-> 0, key |-> IntKey(0), res |-> "none"]

\* a Show with some seasons, episodes and data, not indexed yet
IndexInit ==
    /\ subject \in [tree : Trees, data : SUBSET DataNames]
    /\ indexed = NotIndexed
    /\ dvdorder = FALSE
    /\ epsBody = "none"
    /\ episodes = <<>>
    /\ idx = 0
    /\ heap = <<>>
    /\ warnings = 0
    /\ error = "none"
    /\ stage = "idle"
    /\ shows = <<>>
    /\ _stack = <<>>
    /\ _lastgc = 0
    /\ now = 0
    /\ op = "init"
    /\ arg = 0
    /\ gc = FALSE
    /\ raised = FALSE
    /\ result = 0
    /\ nextKey = 1
    /\ nextShow = 1
    /\ reinserted = {}
    /\ tries = 0
    /\ delay = 0
    /\ backoff = 0
    /\ f = <<>>
    /\ mtries = 0
    /\ mdelay = 0
    /\ pc = "idle"
    /\ calls = 0
    /\ slept = <<>>
    /\ events = <<>>
    /\ outcome = "none"
    /\ retval = 0
    /\ requests = 0
    /\ got = <<>>
    /\ transport = <<>>
    /\ via = "none"
    /\ surfaced = "none"
    /\ catalog = <<>>
    /\ selected = 0
    /\ merged = <<>>
    /\ custom_ui = "none"
    /\ ui = "not invoked"
    /\ valuesOrder = <<>>
    /\ found = <<>>
    /\ actors_enabled = FALSE
    /\ upstream = <<>>
    /\ normalizer = "none"
    /\ normalized = <<>>
    /\ caller = <<>>
    /\ history = {}
    /\ tv_shows = <<>>
    /\ answer = <<>>
    /\ amActive = FALSE
    /\ network_dict = FALSE
    /\ showList = <<>>
    /\ tv_episodes = <<>>
    /\ runner = <<>>
    /\ params_getSeries = ""
    /\ searcher = <<>>

\* show[key]
IndexShow ==
    \E key \in IndexKeys :
        /\ indexed' = [on |-> "Show", season |-> 0, episode |-> 0, key |-> key,
                       res |-> ShowGetItem(subject, key)]
        /\ UNCHANGED <<subject, otherThanIndex>>

\* show[s][key]
IndexSeason ==
    \E s \in DOMAIN subject.tree, key \in IndexKeys :
        /\ indexed' = [on |-> "Season", season |-> s, episode |-> 0, key |-> key,
                       res |-> SeasonGetItem(subject.tree[s], key)]
        /\ UNCHANGED <<subject, otherThanIndex>>

\* show[s][e][key]
IndexEpisode ==
    \E s \in DOMAIN subject.tree, key \in IndexKeys :
      \E e \in DOMAIN subject.tree[s] :
        /\ indexed' = [on |-> "Episode", season |-> s, episode |-> e, key |-> key,
                       res |-> EpisodeGetItem(subject.tree[s][e], key)]
        /\ UNCHANGED <<subject, otherThanIndex>>

IndexNext == IndexShow \/ IndexSeason \/ IndexEpisode

SpecIndex == IndexInit /\ [][IndexNext]_vars

----------------------------------------------------------------------------
(* Properties of indexing, checked under SpecIndex *)

\* the key is an int, or a str made of digits only
NumericKey(key) ==
    \/ key.type = "int"
    \/ key.s # <<>> /\ \A i \in DOMAIN key.s : key.s[i] \in DigitChars

\* the key is a str that is not made of digits only
AttributeNameKey(key) == key.type = "str" /\ ~NumericKey(key)

C14_UnknownAttributeName ==
    ( /\ indexed.on \in {"Show", "Season", "Episode"}
      /\ AttributeNameKey(indexed.key)
      /\ indexed.on = "Show" => indexed.key.s \notin subject.data
      /\ indexed.on = "Episode" =>
            indexed.key.s \notin subject.tree[indexed.season][indexed.episode] )
    => indexed.res = "tvmaze_attributenotfound"

----------------------------------------------------------------------------
(* getShow(sid) on a new client: TVmaze.__getitem__ with an int key, and    *)
(* _getShowData(sid, language, True) one step at a time                     *)

\* the largest number of records in the episode list
MaxEpisodes == 2

\* the id getShow is called with
IngestSid == 1

\* a JSON value of an episode record: a number (held in tenths, so that 20 is
\* 2 and 2.0), null, or no such field in the record
Absent == [kind |-> "absent", tenths |-> 0]
Null == [kind |-> "null", tenths |-> 0]
Num(t) == [kind |-> "number", tenths |-> t]

\* int(float(v))
IntFloat(v) == v.tenths \div 10

\* the records the episode list may hold, with the field names map_data and
\* _getShowData use
EpisodeFields == {"dvd_season", "dvd_episodenumber", "seasonnumber", "episodenumber"}
EpisodeRecords ==
    [dvd_season : {Absent, Null, Num(20)},
     dvd_episodenumber : {Absent, Null, Num(50)},
     seasonnumber : {Null, Num(10)},
     episodenumber : {Null, Num(200)}]
EpisodeLists == UNION {[1..n -> EpisodeRecords] : n \in 0..MaxEpisodes}

\* the fields _parse_show_data returns for the show
InfoData == [k \in {"seriesname", "image_medium", "poster"} |-> "show-info"]

\* cur_ep.items(): the fields the record has
Items(ep) == {k \in EpisodeFields : ep[k] # Absent}

\* cur_ep['dvd_season'] != None and cur_ep['dvd_episodenumber'] != None:
\* a subscript of a field the record lacks raises KeyError, and the second
\* operand is evaluated only when the first is true
DvdTest(ep) ==
    IF ep.dvd_season = Absent THEN "KeyError"
    ELSE IF ep.dvd_season = Null THEN "False"
    ELSE IF ep.dvd_episodenumber = Absent THEN "KeyError"
    ELSE IF ep.dvd_episodenumber = Null THEN "False"
    ELSE "True"

\* variant of UseDvd: the disc-order fields are used whatever config['dvdorder']
UseDvdUnconditionally(order, ep) == DvdTest(ep)

\* use_dvd
UseDvd(order, ep) == IF order THEN DvdTest(ep) ELSE "False"

\* seasnum, epno
Resolved(order, ep) ==
    IF UseDvd(order, ep) = "True"
    THEN <<ep.dvd_season, ep.dvd_episodenumber>>
    ELSE <<ep.seasonnumber, ep.episodenumber>>

\* _setItem(sid, seas, ep, attrib, value) for every item of the record, on the
\* tree of the Show: the Season and the Episode are created when missing
SetItems(tree, seas, epno, rec) ==
    LET season == IF seas \in DOMAIN tree THEN tree[seas] ELSE <<>>
        episode == IF epno \in DOMAIN season THEN season[epno] ELSE <<>>
        filled == [k \in (DOMAIN episode) \cup Items(rec) |->
                      IF k \in Items(rec) THEN rec[k] ELSE episode[k]]
    IN PutItem(tree, seas, PutItem(season, epno, filled))

\* the tree of the Show the cache holds for sid
TreeOf(c, h, sid) == h[c[sid]].tree

\* a new client, configured with or without disc order; the upstream episode
\* list is some list of records or a null body
IngestInit ==
    /\ dvdorder \in BOOLEAN
    /\ epsBody \in {"list", "null"}
    /\ episodes \in IF epsBody = "list" THEN EpisodeLists ELSE {<<>>}
    /\ idx = 0
    /\ heap = <<>>
    /\ warnings = 0
    /\ error = "none"
    /\ stage = "start"
    /\ shows = <<>>
    /\ _stack = <<>>
    /\ _lastgc = 0
    /\ now = 0
    /\ op = "init"
    /\ arg = 0
    /\ gc = FALSE
    /\ raised = FALSE
    /\ result = 0
    /\ nextKey = 1
    /\ nextShow = 1
    /\ reinserted = {}
    /\ requests = 0
    /\ got = <<>>
    /\ tries = 0
    /\ delay = 0
    /\ backoff = 0
    /\ f = <<>>
    /\ mtries = 0
    /\ mdelay = 0
    /\ pc = "idle"
    /\ calls = 0
    /\ slept = <<>>
    /\ events = <<>>
    /\ outcome = "none"
    /\ retval = 0
    /\ transport = <<>>
    /\ via = "none"
    /\ surfaced = "none"
    /\ subject = <<>>
    /\ indexed = <<>>
    /\ catalog = <<>>
    /\ selected = 0
    /\ merged = <<>>
    /\ custom_ui = "none"
    /\ ui = "not invoked"
    /\ valuesOrder = <<>>
    /\ found = <<>>
    /\ actors_enabled \in BOOLEAN
    /\ upstream = <<>>
    /\ normalizer = "none"
    /\ normalized = <<>>
    /\ caller = <<>>
    /\ history = {}
    /\ tv_shows = <<>>
    /\ answer = <<>>
    /\ amActive = FALSE
    /\ network_dict = FALSE
    /\ showList = <<>>
    /\ tv_episodes = <<>>
    /\ runner = <<>>
    /\ params_getSeries = ""
    /\ searcher = <<>>

\* key not in self.shows: _getShowData calls get_show_by_id and stores every
\* field with _setShowData, the first of which inserts a new Show
GetShowInfo ==
    /\ stage = "start"
    /\ ~Cached(shows, IngestSid)
    /\ LET c == SetShowData(Container, IngestSid, nextShow, now) IN
        /\ shows' = c.shows
        /\ _stack' = c.stack
        /\ _lastgc' = c.lastgc
        /\ heap' = PutItem(heap, nextShow, [data |-> InfoData, tree |-> <<>>])
        /\ nextShow' = nextShow + 1
    /\ op' = "getshow"
    /\ arg' = IngestSid
    /\ stage' = "info"
    /\ UNCHANGED <<now, gc, raised, result, nextKey, reinserted, dvdorder, epsBody,
                   episodes, idx, warnings, error, otherThanIngest>>

\* the cast the upstream returns for a show, in credited order
UpstreamCast == <<"first credited", "second credited">>

\* if self.config['actors_enabled']: self._parseActors(sid).  _getetsrc returns
\* {"data": <the cast>}, which is not empty, and actorsEt['actor'] raises
\* KeyError: the loop over the cast and _setShowData(sid, '_actors', ...) are
\* not reached
ParseActors ==
    /\ stage = "info"
    /\ actors_enabled
    /\ error' = "KeyError"
    /\ stage' = "raised"
    /\ UNCHANGED <<cacheVars, dvdorder, epsBody, episodes, idx, heap, warnings,
                   otherThanIngest>>

\* epsEt = self.episode_list(sid): map_data(results['data']) enumerates the
\* body, which raises TypeError when the body is None; otherwise epsEt is
\* {"episode": [...]}, which is neither empty nor without 'episode'
GetEpisodeList ==
    /\ stage = "info"
    /\ ~actors_enabled
    /\ IF epsBody = "null"
       THEN /\ error' = "TypeError"
            /\ stage' = "raised"
            /\ UNCHANGED idx
       ELSE /\ idx' = 1
            /\ stage' = "eps"
            /\ UNCHANGED error
    /\ UNCHANGED <<cacheVars, dvdorder, epsBody, episodes, heap, warnings,
                   otherThanIngest>>

\* one pass of `for cur_ep in episodes`
IngestEpisode ==
    /\ stage = "eps"
    /\ idx \in DOMAIN episodes
    /\ LET ep == episodes[idx]
           pair == Resolved(dvdorder, ep)
       IN
       IF UseDvd(dvdorder, ep) = "KeyError" \/ Absent \in {pair[1], pair[2]}
       THEN /\ error' = "KeyError"
            /\ stage' = "raised"
            /\ UNCHANGED <<idx, heap, warnings>>
       ELSE IF pair[1] = Null \/ pair[2] = Null
       THEN /\ warnings' = warnings + 1
            /\ idx' = idx + 1
            /\ UNCHANGED <<heap, error, stage>>
       ELSE /\ heap' = [heap EXCEPT ![shows[IngestSid]].tree =
                           SetItems(@, IntFloat(pair[1]), IntFloat(pair[2]), ep)]
            /\ idx' = idx + 1
            /\ UNCHANGED <<warnings, error, stage>>
    /\ UNCHANGED <<cacheVars, dvdorder, epsBody, episodes, otherThanIngest>>

\* the loop is over: _getShowData returns True, __getitem__ returns self.shows[key]
GetShowReturns ==
    /\ stage = "eps"
    /\ idx \notin DOMAIN episodes
    /\ result' = shows[IngestSid]
    /\ stage' = "returned"
    /\ UNCHANGED <<shows, _stack, _lastgc, now, op, arg, gc, raised, nextKey, nextShow,
                   reinserted, dvdorder, epsBody, episodes, idx, heap, warnings, error,
                   otherThanIngest>>

IngestNext == GetShowInfo \/ ParseActors \/ GetEpisodeList \/ IngestEpisode \/ GetShowReturns

SpecIngest == IngestInit /\ [][IngestNext]_vars

----------------------------------------------------------------------------
(* Properties of episode ingestion, checked under SpecIngest *)

\* the (season, episode) positions a tree holds
Positions(tree) == UNION {{<<s, e>> : e \in DOMAIN tree[s]} : s \in DOMAIN tree}

\* between trees t and t2 the record was stored at position p and nothing
\* else was added or changed
StoredAt(t, t2, p, ep) ==
    /\ Positions(t2) = Positions(t) \cup {p}
    /\ \A k \in EpisodeFields :
          ep[k].kind # "absent" =>
              (k \in DOMAIN t2[p[1]][p[2]] /\ t2[p[1]][p[2]][k] = ep[k])
    /\ \A q \in Positions(t) \ {p} : t2[q[1]][q[2]] = t[q[1]][q[2]]

\* the loop is at a record
AtRecord == stage = "eps" /\ idx \in DOMAIN episodes

\* the record has both disc-order fields (numbers or nulls) and a broadcast
\* pair of numbers
CarriesBothPairs(ep) ==
    /\ ep.dvd_season.kind # "absent"
    /\ ep.dvd_episodenumber.kind # "absent"
    /\ ep.seasonnumber.kind = "number"
    /\ ep.episodenumber.kind = "number"

\* both disc-order fields are in the record and are not null
HasDiscPair(ep) == ep.dvd_season.kind = "number" /\ ep.dvd_episodenumber.kind = "number"

DiscPosition(ep) == <<ep.dvd_season.tenths \div 10, ep.dvd_episodenumber.tenths \div 10>>
BroadcastPosition(ep) == <<ep.seasonnumber.tenths \div 10, ep.episodenumber.tenths \div 10>>

\* C15: a record carrying both pairs is stored in the tree at its disc-order
\* pair when disc order is enabled and both disc-order values are non-null,
\* and at its broadcast pair when disc order is disabled or a disc-order
\* value is null.
C15_StoredAtDiscOrBroadcastPair ==
    [][ (AtRecord /\ CarriesBothPairs(episodes[idx])) =>
          /\ stage' = "eps"
          /\ StoredAt(TreeOf(shows, heap, IngestSid), TreeOf(shows', heap', IngestSid),
                      IF dvdorder /\ HasDiscPair(episodes[idx])
                      THEN DiscPosition(episodes[idx])
                      ELSE BroadcastPosition(episodes[idx]),
                      episodes[idx]) ]_vars

\* C15 witness: with disc order enabled, the record with disc pair (2,5) and
\* broadcast pair (1,20) has been stored at (2,5) and not at (1,20).
C15_Witness ==
    /\ stage = "eps"
    /\ idx = 2
    /\ dvdorder
    /\ DiscPosition(episodes[1]) = <<2, 5>>
    /\ HasDiscPair(episodes[1])
    /\ BroadcastPosition(episodes[1]) = <<1, 20>>
    /\ CarriesBothPairs(episodes[1])
    /\ Positions(TreeOf(shows, heap, IngestSid)) = {<<2, 5>>}

\* C16: with disc order enabled, a record that lacks a disc-order field
\* altogether is stored at its broadcast pair and getShow raises nothing.
C16_AbsentDiscFieldsFallBackToBroadcast ==
    [][ ( /\ AtRecord
          /\ dvdorder
          /\ \/ episodes[idx].dvd_season.kind = "absent"
             \/ episodes[idx].dvd_episodenumber.kind = "absent"
          /\ episodes[idx].seasonnumber.kind = "number"
          /\ episodes[idx].episodenumber.kind = "number" ) =>
          /\ stage' = "eps"
          /\ error' = "none"
          /\ StoredAt(TreeOf(shows, heap, IngestSid), TreeOf(shows', heap', IngestSid),
                      BroadcastPosition(episodes[idx]), episodes[idx]) ]_vars

\* the pair a record resolves to: its disc-order pair if disc order is enabled
\* and both disc-order fields are present and non-null, else its broadcast pair
ResolvedPairKinds(ep) ==
    IF dvdorder /\ HasDiscPair(ep)
    THEN {ep.dvd_season.kind, ep.dvd_episodenumber.kind}
    ELSE {ep.seasonnumber.kind, ep.episodenumber.kind}

\* C17: a record whose resolved season or episode number is null is not
\* inserted into the tree, one warning is logged for it, and the loop goes on
\* to the next record without an error.
C17_NullPairIsSkippedWithOneWarning ==
    [][ (AtRecord /\ "null" \in ResolvedPairKinds(episodes[idx])) =>
          /\ heap' = heap
          /\ warnings' = warnings + 1
          /\ error' = "none"
          /\ stage' = "eps"
          /\ idx' = idx + 1 ]_vars

\* C20: when the episode-list response has a null body, getShow raises
\* tvmaze_showincomplete: it does not return and raises nothing else.
C20_NullEpisodeListRaisesShowIncomplete ==
    (epsBody = "null" /\ stage \in {"raised", "returned"}) =>
        (stage = "raised" /\ error = "tvmaze_showincomplete")

\* C26: with the cast enabled, getShow completes and the Show's data holds
\* under '_actors' one Actor per upstream cast entry, in upstream order.
C26_CastIsStoredWithTheShow ==
    (actors_enabled /\ stage \in {"raised", "returned"}) =>
        /\ stage = "returned"
        /\ "_actors" \in DOMAIN heap[shows[IngestSid]].data
        /\ Len(heap[shows[IngestSid]].data["_actors"]) = Len(UpstreamCast)

----------------------------------------------------------------------------
(* TVmaze.__getitem__ with a str key (byName) and with an int key (getShow), *)
(* each as one step, on one client with the default configuration          *)

LookupNames == {"a", "b"}
LookupIds == {1, 2}

\* what search(name) may find: no candidate, or some of the ids in some order
CandidateLists == {<<>>} \cup {<<i>> : i \in LookupIds}
                      \cup {<<i, j>> : i, j \in LookupIds}

\* the fields search.map_data returns for a candidate besides its id; each is
\* also a field of InfoData
SearchData == [k \in {"seriesname", "image_medium"} |-> "search"]

\* the episode list the upstream returns for a show
UpstreamEpisodes ==
    <<[dvd_season |-> Absent, dvd_episodenumber |-> Absent,
       seasonnumber |-> Num(10), episodenumber |-> Num(200)]>>

\* BaseUI.selectSeries(allSeries): return allSeries[0]
SelectSeries(allSeries) == allSeries[1]

\* _setShowData(sid, k, v) for every k, v of fields, on the data of a Show
SetData(data, fields) ==
    [k \in (DOMAIN data) \cup (DOMAIN fields) |->
        IF k \in DOMAIN fields THEN fields[k] ELSE data[k]]

\* the loop over the episode list in _getShowData, from record i on, for
\* records that raise nothing
RECURSIVE IngestAll(_, _, _, _)
IngestAll(tree, order, eps, i) ==
    IF i \notin DOMAIN eps THEN tree
    ELSE LET pair == Resolved(order, eps[i]) IN
         IF pair[1] = Null \/ pair[2] = Null
         THEN IngestAll(tree, order, eps, i + 1)
         ELSE IngestAll(SetItems(tree, IntFloat(pair[1]), IntFloat(pair[2]), eps[i]),
                        order, eps, i + 1)

\* a new client with the default configuration, and some upstream search index
LookupInit ==
    /\ catalog \in [LookupNames -> CandidateLists]
    /\ selected = 0
    /\ merged = <<>>
    /\ shows = <<>>
    /\ _stack = <<>>
    /\ _lastgc = 0
    /\ now = 0
    /\ op = "init"
    /\ arg = 0
    /\ gc = FALSE
    /\ raised = FALSE
    /\ result = 0
    /\ nextKey = 1
    /\ nextShow = 1
    /\ reinserted = {}
    /\ requests = 0
    /\ got = <<>>
    /\ tries = 0
    /\ delay = 0
    /\ backoff = 0
    /\ f = <<>>
    /\ mtries = 0
    /\ mdelay = 0
    /\ pc = "idle"
    /\ calls = 0
    /\ slept = <<>>
    /\ events = <<>>
    /\ outcome = "none"
    /\ retval = 0
    /\ transport = <<>>
    /\ via = "none"
    /\ surfaced = "none"
    /\ subject = <<>>
    /\ indexed = <<>>
    /\ dvdorder = FALSE
    /\ epsBody = "none"
    /\ episodes = <<>>
    /\ idx = 0
    /\ heap = <<>>
    /\ warnings = 0
    /\ error = "none"
    /\ stage = "idle"
    /\ custom_ui \in {"none", "custom"}
    /\ ui = "not invoked"
    /\ valuesOrder = <<>>
    /\ found = <<>>
    /\ actors_enabled = FALSE
    /\ upstream = <<>>
    /\ normalizer = "none"
    /\ normalized = <<>>
    /\ caller = <<>>
    /\ history = {}
    /\ tv_shows = <<>>
    /\ answer = <<>>
    /\ amActive = FALSE
    /\ network_dict = FALSE
    /\ showList = <<>>
    /\ tv_episodes = <<>>
    /\ runner = <<>>
    /\ params_getSeries = ""
    /\ searcher = <<>>

\* if not allSeries: raise tvmaze_shownotfound
GetSeriesRaisesIndexerError(allSeries) == IF allSeries = <<>> THEN "tvmaze_error" ELSE "none"
GetSeriesRaises(allSeries) == IF allSeries = <<>> THEN "tvmaze_shownotfound" ELSE "none"

\* what ui.selectSeries(allSeries) may return, which _getSeries asks for only
\* when there are candidates: BaseUI returns the first candidate, an injected
\* strategy any of them
Selectable(cu, allSeries) ==
    IF allSeries = <<>> THEN {}
    ELSE IF cu = "none" THEN {SelectSeries(allSeries)} ELSE Range(allSeries)

\* variant of RaisedByGetItem: whatever the strategy raises becomes tvmaze_error
RaisedByGetItemAsIndexerError(e) == "tvmaze_error"

\* neither _getSeries nor __getitem__ has a try around ui.selectSeries: what
\* the strategy raises is what the caller of __getitem__ gets
RaisedByGetItem(e) == e

\* a str key: _getSeries(key) finds candidates and selects one, whose fields
\* are stored with _setShowData; the list holding the selected dict is returned
ByNameFound ==
    \E name \in LookupNames :
      \E sid \in Selectable(custom_ui, catalog[name]) :
        /\ GetSeriesRaises(catalog[name]) = "none"
        /\ LET c == SetShowData(Container, sid, nextShow, now)
               show == c.shows[sid]
               old == IF Cached(shows, sid) THEN heap[show]
                      ELSE [data |-> <<>>, tree |-> <<>>]
           IN
            /\ shows' = c.shows
            /\ _stack' = c.stack
            /\ _lastgc' = c.lastgc
            /\ nextShow' = IF Cached(shows, sid) THEN nextShow ELSE nextShow + 1
            /\ heap' = PutItem(heap, show, [old EXCEPT !.data = SetData(@, SearchData)])
            /\ merged' = PutItem(merged, show,
                                 (IF Cached(shows, sid) THEN merged[show] ELSE {})
                                     \cup {"search"})
            /\ selected' = sid
        /\ op' = "byName"
        /\ arg' = name
        /\ raised' = FALSE
        /\ error' = "none"
        /\ requests' = 1
        /\ ui' = "selected"
        /\ UNCHANGED <<now, gc, result, nextKey, reinserted, dvdorder, epsBody,
                       episodes, idx, warnings, stage, catalog, custom_ui,
                       otherThanLookup>>

\* a str key the search finds nothing for: _getSeries raises
\* tvmaze_shownotfound before it builds a selection strategy
ByNameNotFound ==
    \E name \in LookupNames :
        /\ GetSeriesRaises(catalog[name]) # "none"
        /\ op' = "byName"
        /\ arg' = name
        /\ raised' = TRUE
        /\ error' = GetSeriesRaises(catalog[name])
        /\ requests' = 1
        /\ ui' = "not invoked"
        /\ selected' = 0
        /\ UNCHANGED <<shows, _stack, _lastgc, now, gc, result, nextKey, nextShow,
                       reinserted, dvdorder, epsBody, episodes, idx, heap, warnings,
                       stage, catalog, merged, custom_ui, otherThanLookup>>

\* a str key whose candidates the injected strategy declines to choose from:
\* selectSeries raises tvmaze_userabort
ByNameAborted ==
    \E name \in LookupNames :
        /\ GetSeriesRaises(catalog[name]) = "none"
        /\ custom_ui # "none"
        /\ op' = "byName"
        /\ arg' = name
        /\ raised' = TRUE
        /\ error' = RaisedByGetItem("tvmaze_userabort")
        /\ requests' = 1
        /\ ui' = "tvmaze_userabort"
        /\ selected' = 0
        /\ UNCHANGED <<shows, _stack, _lastgc, now, gc, result, nextKey, nextShow,
                       reinserted, dvdorder, epsBody, episodes, idx, heap, warnings,
                       stage, catalog, merged, custom_ui, otherThanLookup>>

\* an int key that is in self.shows: return self.shows[key]
GetShowHit ==
    \E id \in LookupIds :
        /\ Cached(shows, id)
        /\ op' = "getShow"
        /\ arg' = id
        /\ raised' = FALSE
        /\ error' = "none"
        /\ requests' = 0
        /\ ui' = "not invoked"
        /\ result' = shows[id]
        /\ UNCHANGED <<shows, _stack, _lastgc, now, gc, nextKey, nextShow, reinserted,
                       dvdorder, epsBody, episodes, idx, heap, warnings, stage,
                       lookupVars, custom_ui, otherThanLookup>>

\* an int key that is not in self.shows: _getShowData(key, language, True)
\* stores the show-info fields in a new Show and the episodes in its tree
GetShowMiss ==
    \E id \in LookupIds :
        /\ ~Cached(shows, id)
        /\ LET c == SetShowData(Container, id, nextShow, now) IN
            /\ shows' = c.shows
            /\ _stack' = c.stack
            /\ _lastgc' = c.lastgc
            /\ heap' = PutItem(heap, nextShow,
                               [data |-> SetData(<<>>, InfoData),
                                tree |-> IngestAll(<<>>, dvdorder, UpstreamEpisodes, 1)])
            /\ merged' = PutItem(merged, nextShow, {"show-info"})
            /\ result' = c.shows[id]
        /\ nextShow' = nextShow + 1
        /\ op' = "getShow"
        /\ arg' = id
        /\ raised' = FALSE
        /\ error' = "none"
        /\ requests' = 2
        /\ ui' = "not invoked"
        /\ UNCHANGED <<now, gc, nextKey, reinserted, dvdorder, epsBody, episodes, idx,
                       warnings, stage, catalog, selected, custom_ui, otherThanLookup>>

LookupNext == ByNameFound \/ ByNameNotFound \/ ByNameAborted \/ GetShowHit \/ GetShowMiss

SpecLookup == LookupInit /\ [][LookupNext]_vars

----------------------------------------------------------------------------
(* Properties of byName and getShow, checked under SpecLookup *)

\* C18: when byName returns, the cache holds a Show for the selected id whose
\* episode tree has been fetched and populated.
C18_ByNameLeavesPopulatedShow ==
    (op = "byName" /\ ~raised) =>
        /\ selected \in DOMAIN shows
        /\ TreeOf(shows, heap, selected) # <<>>

\* C19: in a Show into which both search-result fields and show-info fields
\* have been stored, every field name both sources have holds the show-info
\* value.
C19_ShowInfoWinsCollisions ==
    \A show \in DOMAIN heap :
        merged[show] = {"search", "show-info"} =>
            \A k \in {"seriesname", "image_medium"} :
                heap[show].data[k] = "show-info"

C22_UserAbortReachesCallerUnchanged ==
    [][ (op' = "byName" /\ ui' = "tvmaze_userabort") =>
          /\ raised'
          /\ error' = "tvmaze_userabort"
          /\ requests' = 1
          /\ shows' = shows
          /\ _stack' = _stack
          /\ heap' = heap ]_vars

\* C22 witness: with a Show already cached, the strategy aborted and the
\* caller got tvmaze_userabort.
C22_Witness ==
    /\ op = "byName"
    /\ ui = "tvmaze_userabort"
    /\ error = "tvmaze_userabort"
    /\ DOMAIN shows # {}

----------------------------------------------------------------------------
(* Show.search, Season.search and Episode.search                            *)

\* the value of an Episode field: None, or a string as the sequence of its
\* characters
None == [none |-> TRUE, text |-> <<>>]
Text(s) == [none |-> FALSE, text |-> s]

\* unicode(cur_value)
Unicode(v) == IF v.none THEN <<"N", "o", "n", "e">> ELSE v.text

\* variant of Lower: the case is kept
LowerKept(s) == s

\* unicode.lower()
LowerChar(c) ==
    CASE c = "E" -> "e" [] c = "M" -> "m" [] c = "N" -> "n" [] c = "O" -> "o"
      [] c = "V" -> "v" [] OTHER -> c
Lower(s) == [i \in DOMAIN s |-> LowerChar(s[i])]

\* s.find(sub) > -1
Find(s, sub) ==
    \E i \in 0..(Len(s) - Len(sub)) : SubSeq(s, i + 1, i + Len(sub)) = sub

\* the key argument: None, or a field name
NoKey == [given |-> FALSE, s |-> <<>>]
Key(s) == [given |-> TRUE, s |-> s]

\* field names as _setItem stores them (lower case), the Episodes a Season may
\* hold, and the terms and keys searched with
NameNm == <<"n", "m">>
NameOv == <<"o", "v">>
SearchedEpisodes ==
    {(NameNm :> Text(<<"N", "o">>)), (NameNm :> Text(<<"o">>)), (NameNm :> None),
     (NameNm :> Text(<<"o">>)) @@ (NameOv :> Text(<<"n", "O">>))}
SearchedSeasons == UNION {[E -> SearchedEpisodes] : E \in (SUBSET EpisodeNumbers) \ {{}}}
SearchedTrees == UNION {[S -> SearchedSeasons] : S \in SUBSET SeasonNumbers}
SearchTerms == {<<"N", "O">>, <<"o">>, <<"e">>}
SearchKeys == {NoKey, Key(NameNm), Key(NameOv), Key(<<"N", "m">>)}

\* dict.values() yields the values in an order the caller does not choose:
\* the orders in which the keys S may come
Orders(S) == {sq \in [1..Cardinality(S) -> S] : Range(sq) = S}

\* Episode.search(term, key): whether the Episode returns itself
EpisodeSearch(episode, term, key) ==
    \E cur_key \in DOMAIN episode :
        /\ ~(key.given /\ Lower(cur_key) # key.s)
        /\ Find(Lower(Unicode(episode[cur_key])), Lower(Lower(term)))

\* Season.search(term, key): the episodes of the season, in the order values()
\* yields them, that return themselves
RECURSIVE SeasonSearch(_, _, _, _, _, _)
SeasonSearch(tree, order, s, term, key, i) ==
    IF i \notin DOMAIN order.season[s] THEN <<>>
    ELSE LET e == order.season[s][i] IN
         (IF EpisodeSearch(tree[s][e], term, key) THEN <<(<<s, e>>)>> ELSE <<>>)
             \o SeasonSearch(tree, order, s, term, key, i + 1)

\* Show.search(term, key): results.extend(cur_season.search(term, key)) for the
\* seasons in the order values() yields them
RECURSIVE ShowSearch(_, _, _, _, _)
ShowSearch(tree, order, term, key, i) ==
    IF i \notin DOMAIN order.show THEN <<>>
    ELSE SeasonSearch(tree, order, order.show[i], term, key, 1)
             \o ShowSearch(tree, order, term, key, i + 1)

\* no search made yet
NotSearched == [on |-> "none", season |-> 0, term |-> <<>>, key |-> NoKey, res |-> <<>>]

\* a Show with some seasons and episodes, whose dicts yield their values in
\* some order
SearchInit ==
    /\ subject \in [tree : SearchedTrees, data : {{}}]
    /\ valuesOrder \in [show : Orders(DOMAIN subject.tree),
                        season : {o \in [DOMAIN subject.tree ->
                                           UNION {Orders(E) : E \in SUBSET EpisodeNumbers}] :
                                     \A s \in DOMAIN subject.tree :
                                         Range(o[s]) = DOMAIN subject.tree[s]}]
    /\ found = NotSearched
    /\ shows = <<>>
    /\ _stack = <<>>
    /\ _lastgc = 0
    /\ now = 0
    /\ op = "init"
    /\ arg = 0
    /\ gc = FALSE
    /\ raised = FALSE
    /\ result = 0
    /\ nextKey = 1
    /\ nextShow = 1
    /\ reinserted = {}
    /\ requests = 0
    /\ got = <<>>
    /\ tries = 0
    /\ delay = 0
    /\ backoff = 0
    /\ f = <<>>
    /\ mtries = 0
    /\ mdelay = 0
    /\ pc = "idle"
    /\ calls = 0
    /\ slept = <<>>
    /\ events = <<>>
    /\ outcome = "none"
    /\ retval = 0
    /\ transport = <<>>
    /\ via = "none"
    /\ surfaced = "none"
    /\ indexed = <<>>
    /\ dvdorder = FALSE
    /\ epsBody = "none"
    /\ episodes = <<>>
    /\ idx = 0
    /\ heap = <<>>
    /\ warnings = 0
    /\ error = "none"
    /\ stage = "idle"
    /\ catalog = <<>>
    /\ selected = 0
    /\ merged = <<>>
    /\ custom_ui = "none"
    /\ ui = "not invoked"
    /\ actors_enabled = FALSE
    /\ upstream = <<>>
    /\ normalizer = "none"
    /\ normalized = <<>>
    /\ caller = <<>>
    /\ history = {}
    /\ tv_shows = <<>>
    /\ answer = <<>>
    /\ amActive = FALSE
    /\ network_dict = FALSE
    /\ showList = <<>>
    /\ tv_episodes = <<>>
    /\ runner = <<>>
    /\ params_getSeries = ""
    /\ searcher = <<>>

\* show.search(term, key)
SearchShow ==
    \E term \in SearchTerms, key \in SearchKeys :
        /\ found' = [on |-> "Show", season |-> 0, term |-> term, key |-> key,
                     res |-> ShowSearch(subject.tree, valuesOrder, term, key, 1)]
        /\ UNCHANGED <<subject, valuesOrder, otherThanSearch>>

\* show[s].search(term, key)
SearchSeason ==
    \E s \in DOMAIN subject.tree, term \in SearchTerms, key \in SearchKeys :
        /\ found' = [on |-> "Season", season |-> s, term |-> term, key |-> key,
                     res |-> SeasonSearch(subject.tree, valuesOrder, s, term, key, 1)]
        /\ UNCHANGED <<subject, valuesOrder, otherThanSearch>>

SearchNext == SearchShow \/ SearchSeason

SpecSearch == SearchInit /\ [][SearchNext]_vars

----------------------------------------------------------------------------
(* Properties of search, checked under SpecSearch *)

\* two characters are the same letter, whatever their case
SameLetter(a, b) ==
    \/ a = b
    \/ {a, b} \in {{"e", "E"}, {"m", "M"}, {"n", "N"}, {"o", "O"}, {"v", "V"}}

\* s contains sub as a substring, whatever the case of the letters
ContainsIgnoringCase(s, sub) ==
    \E i \in 0..(Len(s) - Len(sub)) : \A j \in 1..Len(sub) : SameLetter(s[i + j], sub[j])

\* the Episode at position p has a field (the one named by the key, if a key
\* is given) whose value contains the term
Matching(p) ==
    \E name \in DOMAIN subject.tree[p[1]][p[2]] :
        /\ found.key.given => name = found.key.s
        /\ ContainsIgnoringCase(Unicode(subject.tree[p[1]][p[2]][name]), found.term)

\* the place of x in the sequence sq
PlaceIn(sq, x) == CHOOSE i \in DOMAIN sq : sq[i] = x

\* position p is traversed before position q
TraversedBefore(p, q) ==
    \/ PlaceIn(valuesOrder.show, p[1]) < PlaceIn(valuesOrder.show, q[1])
    \/ /\ p[1] = q[1]
       /\ PlaceIn(valuesOrder.season[p[1]], p[2]) < PlaceIn(valuesOrder.season[p[1]], q[2])

\* the positions a search on the Show, or on one Season, ranges over
Searched ==
    IF found.on = "Show" THEN Positions(subject.tree)
    ELSE {p \in Positions(subject.tree) : p[1] = found.season}

----------------------------------------------------------------------------
(* The two normalizations of an upstream show object: _parse_show_data      *)
(* (show info) and search.map_data (search results)                        *)

\* a JSON value: a string (as the sequence of its pieces), an int, a list of
\* strings, an object, null, or no such field
JAbsent == [shape |-> "absent", text |-> <<>>, list |-> <<>>, obj |-> <<>>]
JNull == [shape |-> "null", text |-> <<>>, list |-> <<>>, obj |-> <<>>]
JStr(t) == [shape |-> "str", text |-> t, list |-> <<>>, obj |-> <<>>]
JInt(t) == [shape |-> "int", text |-> t, list |-> <<>>, obj |-> <<>>]
JList(l) == [shape |-> "list", text |-> <<>>, list |-> l, obj |-> <<>>]
JObj(o) == [shape |-> "dict", text |-> <<>>, list |-> <<>>, obj |-> o]

\* value.get(k), for a dict
ObjGet(value, k) == IF k \in DOMAIN value.obj THEN value.obj[k] ELSE JNull

\* the truth value of a JSON value
Truthy(value) ==
    /\ value.shape \notin {"null", "absent"}
    /\ value.shape = "str" => value.text # <<>>
    /\ value.shape = "list" => value.list # <<>>
    /\ value.shape = "dict" => DOMAIN value.obj # {}

\* u', '.join(days)
RECURSIVE Join(_)
Join(days) ==
    IF days = <<>> THEN <<>>
    ELSE IF Len(days) = 1 THEN <<days[1]>>
    ELSE <<days[1], ", ">> \o Join(Tail(days))

\* name_map
NameMap ==
    [k \in {"id", "name", "summary", "premiered", "genres", "image", "url"} |->
        CASE k = "id" -> "id"
          [] k = "name" -> "seriesname"
          [] k = "summary" -> "overview"
          [] k = "premiered" -> "firstaired"
          [] k = "genres" -> "genre"
          [] k = "image" -> "fanart"
          [] k = "url" -> "show_url"]

\* name_map.get(key) or key
Canonical(key) == IF key \in DOMAIN NameMap THEN NameMap[key] ELSE key

\* the show objects the upstream may return
Schedules ==
    {JAbsent,
     JObj([time |-> JStr(<<"21:00">>), days |-> JList(<<>>)]),
     JObj([time |-> JStr(<<"21:00">>), days |-> JList(<<"Monday">>)]),
     JObj([time |-> JStr(<<"21:00">>), days |-> JList(<<"Monday", "Tuesday">>)])}
UpstreamShows ==
    [id : {JInt(<<"1">>)},
     name : {JAbsent, JStr(<<"Scrubs">>)},
     summary : {JNull, JStr(<<"A comedy">>)},
     premiered : {JNull, JStr(<<"2001-10-02">>)},
     genres : {JList(<<>>), JList(<<"Comedy", "Drama">>)},
     image : {JNull, JObj([medium |-> JStr(<<"m.jpg">>), original |-> JStr(<<"o.jpg">>)])},
     url : {JStr(<<"http://www.tvmaze.com/shows/1">>)},
     schedule : Schedules,
     network : {JNull, JObj([name |-> JStr(<<"NBC">>)])}]

\* indexer_data[0].iteritems(): the fields the object has
ShowItems(rec) == {k \in DOMAIN rec : rec[k] # JAbsent}

\* if key == 'schedule': airs_time is stored first; then _parse_show_data
\* evaluates value.value('days') when value.get('days') is true, and map_data
\* evaluates key.get('days'): both raise AttributeError, which ends the field
SchedulePairs(value, by) ==
    IF value.shape # "dict" THEN {}
    ELSE {<<"airs_time", ObjGet(value, "time")>>}
         \cup (IF by = "_parse_show_data" /\ ~Truthy(ObjGet(value, "days"))
               THEN {<<"airs_dayofweek", JNull>>} ELSE {})

\* if key == 'network'
NetworkPairs(value) ==
    IF value.shape # "dict" THEN {} ELSE {<<"network", ObjGet(value, "name")>>}

\* if key == 'image': if value.get('medium')
ImagePairs(value, by) ==
    IF value.shape # "dict" \/ ~Truthy(ObjGet(value, "medium")) THEN {}
    ELSE {<<"image_medium", ObjGet(value, "medium")>>,
          <<"image_original", ObjGet(value, "original")>>}
         \cup (IF by = "_parse_show_data"
               THEN {<<"poster", ObjGet(value, "original")>>} ELSE {})

\* what one field of the upstream object adds to new_dict: a unicode, str or
\* int value goes under the mapped name, any other value only through the
\* branches for schedule, network and image; an exception adds nothing more
FieldPairs(key, value, by) ==
    IF value.shape \in {"str", "int"} THEN {<<Canonical(key), value>>}
    ELSE IF key = "schedule" THEN SchedulePairs(value, by)
    ELSE IF key = "network" THEN NetworkPairs(value)
    ELSE IF key = "image" THEN ImagePairs(value, by)
    ELSE {}

\* new_dict after the loop over the fields
Normalize(rec, by) ==
    LET pairs == UNION {FieldPairs(k, rec[k], by) : k \in ShowItems(rec)} IN
    [k \in {p[1] : p \in pairs} |-> (CHOOSE p \in pairs : p[1] = k)[2]]

\* the upstream has returned some show object; nothing is normalized yet
NormInit ==
    /\ upstream \in UpstreamShows
    /\ normalizer = "none"
    /\ normalized = <<>>
    /\ shows = <<>>
    /\ _stack = <<>>
    /\ _lastgc = 0
    /\ now = 0
    /\ op = "init"
    /\ arg = 0
    /\ gc = FALSE
    /\ raised = FALSE
    /\ result = 0
    /\ nextKey = 1
    /\ nextShow = 1
    /\ reinserted = {}
    /\ requests = 0
    /\ got = <<>>
    /\ tries = 0
    /\ delay = 0
    /\ backoff = 0
    /\ f = <<>>
    /\ mtries = 0
    /\ mdelay = 0
    /\ pc = "idle"
    /\ calls = 0
    /\ slept = <<>>
    /\ events = <<>>
    /\ outcome = "none"
    /\ retval = 0
    /\ transport = <<>>
    /\ via = "none"
    /\ surfaced = "none"
    /\ subject = <<>>
    /\ indexed = <<>>
    /\ dvdorder = FALSE
    /\ epsBody = "none"
    /\ episodes = <<>>
    /\ idx = 0
    /\ heap = <<>>
    /\ warnings = 0
    /\ error = "none"
    /\ stage = "idle"
    /\ catalog = <<>>
    /\ selected = 0
    /\ merged = <<>>
    /\ custom_ui = "none"
    /\ ui = "not invoked"
    /\ valuesOrder = <<>>
    /\ found = <<>>
    /\ actors_enabled = FALSE
    /\ caller = <<>>
    /\ history = {}
    /\ tv_shows = <<>>
    /\ answer = <<>>
    /\ amActive = FALSE
    /\ network_dict = FALSE
    /\ showList = <<>>
    /\ tv_episodes = <<>>
    /\ runner = <<>>
    /\ params_getSeries = ""
    /\ searcher = <<>>

\* get_show_by_id: self._parse_show_data(results.values())
ParseShowData ==
    /\ normalizer' = "_parse_show_data"
    /\ normalized' = Normalize(upstream, "_parse_show_data")
    /\ UNCHANGED <<upstream, otherThanNorm>>

\* search: map_data(results.values()), for the candidate holding the object
SearchMapData ==
    /\ normalizer' = "map_data"
    /\ normalized' = Normalize(upstream, "map_data")
    /\ UNCHANGED <<upstream, otherThanNorm>>

NormNext == ParseShowData \/ SearchMapData

SpecNorm == NormInit /\ [][NormNext]_vars

----------------------------------------------------------------------------
(* Properties of show normalization, checked under SpecNorm *)

\* C24: every field of the upstream object that the name table lists, whatever
\* the shape of its value, is in the normalized record under its canonical
\* name with the upstream value.
C24_NameTableFieldsAreRenamed ==
    normalizer # "none" =>
        \A k \in {"name", "summary", "premiered", "genres", "image", "url"} :
            upstream[k].shape \notin {"absent", "null"} =>
                /\ NameMap[k] \in DOMAIN normalized
                /\ normalized[NameMap[k]] = upstream[k]

\* C25: when the schedule has a time and a non-empty list of days, both
\* normalizations give airs_time the time and airs_dayofweek the days joined
\* by ', '.
C25_ScheduleGivesTimeAndJoinedDays ==
    ( /\ normalizer # "none"
      /\ upstream.schedule.shape = "dict"
      /\ upstream.schedule.obj.days.list # <<>> ) =>
        /\ "airs_time" \in DOMAIN normalized
        /\ normalized["airs_time"] = upstream.schedule.obj.time
        /\ "airs_dayofweek" \in DOMAIN normalized
        /\ normalized["airs_dayofweek"] = JStr(Join(upstream.schedule.obj.days.list))

----------------------------------------------------------------------------
(* ShowContainer.__setitem__ called by concurrent callers: the method holds *)
(* no lock, so the callers' statements interleave                          *)

\* the concurrent callers, and the keys the container holds when they start
RaceCallers == {1, 2}
RaceHeld == 1..KeepLatest

\* the key a caller inserts: one the container does not hold
RaceKey(t) == KeepLatest + t

\* KeepLatest keys were inserted without a sweep; each caller is about to
\* insert a key of its own, at a time when a sweep is or is not due
RaceInit ==
    /\ shows = [k \in RaceHeld |-> k]
    /\ _stack = [i \in RaceHeld |-> i]
    /\ _lastgc = 0
    /\ now \in TickSteps
    /\ caller = [t \in RaceCallers |->
                    [pc |-> "append", key |-> RaceKey(t), old |-> <<>>, i |-> 0,
                     cut |-> <<>>]]
    /\ op = "init"
    /\ arg = 0
    /\ gc = FALSE
    /\ raised = FALSE
    /\ result = 0
    /\ nextKey = 1
    /\ nextShow = 1
    /\ reinserted = {}
    /\ requests = 0
    /\ got = <<>>
    /\ tries = 0
    /\ delay = 0
    /\ backoff = 0
    /\ f = <<>>
    /\ mtries = 0
    /\ mdelay = 0
    /\ pc = "idle"
    /\ calls = 0
    /\ slept = <<>>
    /\ events = <<>>
    /\ outcome = "none"
    /\ retval = 0
    /\ transport = <<>>
    /\ via = "none"
    /\ surfaced = "none"
    /\ subject = <<>>
    /\ indexed = <<>>
    /\ dvdorder = FALSE
    /\ epsBody = "none"
    /\ episodes = <<>>
    /\ idx = 0
    /\ heap = <<>>
    /\ warnings = 0
    /\ error = "none"
    /\ stage = "idle"
    /\ catalog = <<>>
    /\ selected = 0
    /\ merged = <<>>
    /\ custom_ui = "none"
    /\ ui = "not invoked"
    /\ valuesOrder = <<>>
    /\ found = <<>>
    /\ actors_enabled = FALSE
    /\ upstream = <<>>
    /\ normalizer = "none"
    /\ normalized = <<>>
    /\ history = {}
    /\ tv_shows = <<>>
    /\ answer = <<>>
    /\ amActive = FALSE
    /\ network_dict = FALSE
    /\ showList = <<>>
    /\ tv_episodes = <<>>
    /\ runner = <<>>
    /\ params_getSeries = ""
    /\ searcher = <<>>

\* self._stack.append(key)
RaceAppend ==
    \E t \in RaceCallers :
        /\ caller[t].pc = "append"
        /\ _stack' = Append(_stack, caller[t].key)
        /\ caller' = [caller EXCEPT ![t].pc = "test"]
        /\ UNCHANGED <<shows, _lastgc, now, otherThanRace>>

\* if time.time() - self._lastgc > 20
RaceTest ==
    \E t \in RaceCallers :
        /\ caller[t].pc = "test"
        /\ caller' = [caller EXCEPT ![t].pc = IF GcDue(now, _lastgc) THEN "slice" ELSE "put"]
        /\ UNCHANGED <<shows, _stack, _lastgc, now, otherThanRace>>

\* for o in self._stack[:-100]: the slice is taken once
RaceSlice ==
    \E t \in RaceCallers :
        /\ caller[t].pc = "slice"
        /\ caller' = [caller EXCEPT ![t].pc = "del", ![t].old = Older(_stack), ![t].i = 1]
        /\ UNCHANGED <<shows, _stack, _lastgc, now, otherThanRace>>

\* del self[o], for the next o of the slice: KeyError when the key is not
\* held; after the last one the loop is left
RaceDel ==
    \E t \in RaceCallers :
        /\ caller[t].pc = "del"
        /\ IF caller[t].i \notin DOMAIN caller[t].old
           THEN /\ caller' = [caller EXCEPT ![t].pc = "cut"]
                /\ UNCHANGED shows
           ELSE IF caller[t].old[caller[t].i] \in DOMAIN shows
           THEN /\ shows' = DelItem(shows, caller[t].old[caller[t].i])
                /\ caller' = [caller EXCEPT ![t].i = @ + 1]
           ELSE /\ caller' = [caller EXCEPT ![t].pc = "raised"]
                /\ UNCHANGED shows
        /\ UNCHANGED <<_stack, _lastgc, now, otherThanRace>>

\* self._stack = self._stack[-100:], the right-hand side
RaceCutRead ==
    \E t \in RaceCallers :
        /\ caller[t].pc = "cut"
        /\ caller' = [caller EXCEPT ![t].pc = "assign", ![t].cut = Latest(_stack)]
        /\ UNCHANGED <<shows, _stack, _lastgc, now, otherThanRace>>

\* self._stack = self._stack[-100:], the assignment
RaceCutWrite ==
    \E t \in RaceCallers :
        /\ caller[t].pc = "assign"
        /\ _stack' = caller[t].cut
        /\ caller' = [caller EXCEPT ![t].pc = "stamp"]
        /\ UNCHANGED <<shows, _lastgc, now, otherThanRace>>

\* self._lastgc = time.time()
RaceStamp ==
    \E t \in RaceCallers :
        /\ caller[t].pc = "stamp"
        /\ _lastgc' = now
        /\ caller' = [caller EXCEPT ![t].pc = "put"]
        /\ UNCHANGED <<shows, _stack, now, otherThanRace>>

\* super(ShowContainer, self).__setitem__(key, value)
RacePut ==
    \E t \in RaceCallers :
        /\ caller[t].pc = "put"
        /\ shows' = PutItem(shows, caller[t].key, caller[t].key)
        /\ caller' = [caller EXCEPT ![t].pc = "done"]
        /\ UNCHANGED <<_stack, _lastgc, now, otherThanRace>>

RaceNext ==
    \/ RaceAppend \/ RaceTest \/ RaceSlice \/ RaceDel
    \/ RaceCutRead \/ RaceCutWrite \/ RaceStamp \/ RacePut

SpecRace == RaceInit /\ [][RaceNext]_vars

----------------------------------------------------------------------------
(* Properties of concurrent insertions, checked under SpecRace *)

\* C27: once every concurrent insertion has ended, none has failed and the
\* keys of the retention sequence are the keys the cache holds.
C27_ConcurrentInsertionsKeepStackAndKeysEqual ==
    (\A t \in RaceCallers : caller[t].pc \in {"done", "raised"}) =>
        /\ \A t \in RaceCallers : caller[t].pc = "done"
        /\ Range(_stack) = DOMAIN shows

----------------------------------------------------------------------------
(* History: the rows of the history table, read back by History.get *)

\* a string argument: its letters in lower case, and the places where the
\* argument has a capital
Str(w, caps) == [word |-> w, caps |-> caps]
NoneArg == [word |-> "None", caps |-> {0}]
IsString(a) == a /= NoneArg

\* str.lower()
StrLower(a) == [a EXCEPT !.caps = {}]

\* a limit argument: a number, or something that is not one
IntArg(n) == [numeric |-> TRUE, n |-> n]
NotNumeric == [numeric |-> FALSE, n |-> 0]

\* try_int(value, default) of sickrage.helper.common
try_int(v, default) == IF v.numeric THEN v.n ELSE default

\* Quality.DOWNLOADED and Quality.SNATCHED of sickbeard.common: the action
\* codes of the downloaded and of the snatched kind
QualityDOWNLOADED == {"DOWNLOADED"}
QualitySNATCHED == {"SNATCHED"}
HistoryActions == QualityDOWNLOADED \cup QualitySNATCHED \cup {"SUBTITLED"}

\* History._get_actions(action)
_get_actions(action) ==
    LET lowered == IF IsString(action) THEN StrLower(action) ELSE Str("", {})
    IN  IF lowered = Str("downloaded", {}) THEN QualityDOWNLOADED
        ELSE IF lowered = Str("snatched", {}) THEN QualitySNATCHED
        ELSE {}

Max(a, b) == IF a >= b THEN a ELSE b

\* History._get_limit(limit)
_get_limit(limit) == Max(try_int(limit, 0), 0)

\* the rows the history table may hold; show 2 has no row in tv_shows
HistoryShowIds == {1, 2}
HistoryDates == {1, 2}
HistoryRows ==
    [action : HistoryActions, date : HistoryDates, episode : {1, 2},
     provider : {"p"}, quality : {1}, resource : {"r"}, season : {1},
     showid : HistoryShowIds]
HistoryTables == {{}} \cup {{a, b} : a, b \in HistoryRows}
ShowsTable == [i \in {1} |-> "show"]

\* the arguments History.get is called with
LimitArgs == {IntArg(n) : n \in {-1, 0, 1, 2}} \cup {NotNumeric}
ActionArgs ==
    {NoneArg, Str("downloaded", {}), Str("downloaded", {1}),
     Str("snatched", {}), Str("snatched", {1, 2}), Str("other", {})}

\* SELECT ... FROM history h, tv_shows s WHERE h.showid = s.indexer_id
\* [AND action in (...)]: the rows selected, with show_name joined
Selects(table, shown, actions) ==
    {[action |-> r.action, date |-> r.date, episode |-> r.episode,
      provider |-> r.provider, quality |-> r.quality, resource |-> r.resource,
      season |-> r.season, showid |-> r.showid, show_name |-> shown[r.showid]] :
        r \in {h \in table : /\ h.showid \in DOMAIN shown
                             /\ actions /= {} => h.action \in actions}}

\* ORDER BY date DESC: the orders the selected rows may come in
OrderedByDateDesc(rows) ==
    {s \in [1..Cardinality(rows) -> rows] :
        /\ \A i, j \in DOMAIN s : i /= j => s[i] /= s[j]
        /\ \A i, j \in DOMAIN s : i < j => s[i].date >= s[j].date}

\* the dict appended to data for one result
DataRow(r) ==
    [action |-> r.action, date |-> r.date, episode |-> r.episode,
     provider |-> r.provider, quality |-> r.quality, resource |-> r.resource,
     season |-> r.season, show_id |-> r.showid, show_name |-> r.show_name]

SameEpisode(a, b) ==
    /\ a.show_id = b.show_id
    /\ a.season = b.season
    /\ a.episode = b.episode
    /\ a.quality = b.quality

\* actions.sort(key=lambda x: x['time'], reverse=True)
SortedByTimeDesc(s) ==
    CHOOSE t \in [DOMAIN s -> Range(s)] :
        /\ \A x \in Range(s) : Cardinality({i \in DOMAIN s : s[i] = x})
                                 = Cardinality({i \in DOMAIN t : t[i] = x})
        /\ \A i, j \in DOMAIN t : i < j => t[i].time >= t[j].time

\* the second loop of get from its k-th row on. data and compact are names
\* of one list, so the rows looked through are those of the list iterated.
RECURSIVE Compact(_, _)
Compact(list, k) ==
    IF k > Len(list) THEN [raised |-> "none", data |-> list]
    ELSE
        LET row == list[k]
            action == [action |-> row.action, provider |-> row.provider,
                       resource |-> row.resource, time |-> row.date]
            same == {i \in DOMAIN list : SameEpisode(list[i], row)}
        IN  IF same = {}
            THEN Compact(Append(list,
                     [actions |-> <<action>>, episode |-> row.episode,
                      quality |-> row.quality, resource |-> row.resource,
                      season |-> row.season, show_id |-> row.show_id,
                      show_name |-> row.show_name]), k + 1)
            ELSE
                LET index == CHOOSE i \in same : \A j \in same : i <= j
                    history_ == list[index]
                IN  IF "actions" \notin DOMAIN history_
                    THEN [raised |-> "KeyError", data |-> list]
                    ELSE Compact([list EXCEPT ![index] =
                             [history_ EXCEPT !.actions =
                                 SortedByTimeDesc(Append(@, action))]], k + 1)

\* data[:limit], for a limit that is not negative
UpTo(s, n) == SubSeq(s, 1, IF n < Len(s) THEN n ELSE Len(s))

\* History.get(limit, action), for the order the select gave the rows in
Get(results, limit) ==
    LET data == [i \in DOMAIN results |-> DataRow(results[i])]
        done == Compact(data, 1)
    IN  IF done.raised /= "none"
        THEN [raised |-> done.raised, value |-> <<>>]
        ELSE [raised |-> "none", value |-> UpTo(done.data, _get_limit(limit))]

\* some rows are in the history table; get has not been called
HistoryInit ==
    /\ history \in HistoryTables
    /\ tv_shows = ShowsTable
    /\ answer = <<>>
    /\ shows = <<>>
    /\ _stack = <<>>
    /\ _lastgc = 0
    /\ now = 0
    /\ op = "init"
    /\ arg = 0
    /\ gc = FALSE
    /\ raised = FALSE
    /\ result = 0
    /\ nextKey = 1
    /\ nextShow = 1
    /\ reinserted = {}
    /\ requests = 0
    /\ got = <<>>
    /\ tries = 0
    /\ delay = 0
    /\ backoff = 0
    /\ f = <<>>
    /\ mtries = 0
    /\ mdelay = 0
    /\ pc = "idle"
    /\ calls = 0
    /\ slept = <<>>
    /\ events = <<>>
    /\ outcome = "none"
    /\ retval = 0
    /\ transport = <<>>
    /\ via = "none"
    /\ surfaced = "none"
    /\ subject = <<>>
    /\ indexed = <<>>
    /\ dvdorder = FALSE
    /\ epsBody = "none"
    /\ episodes = <<>>
    /\ idx = 0
    /\ heap = <<>>
    /\ warnings = 0
    /\ error = "none"
    /\ stage = "idle"
    /\ catalog = <<>>
    /\ selected = 0
    /\ merged = <<>>
    /\ custom_ui = "none"
    /\ ui = "not invoked"
    /\ valuesOrder = <<>>
    /\ found = <<>>
    /\ actors_enabled = FALSE
    /\ upstream = <<>>
    /\ normalizer = "none"
    /\ normalized = <<>>
    /\ caller = <<>>
    /\ amActive = FALSE
    /\ network_dict = FALSE
    /\ showList = <<>>
    /\ tv_episodes = <<>>
    /\ runner = <<>>
    /\ params_getSeries = ""
    /\ searcher = <<>>

\* History.get(limit, action)
HistoryGet ==
    \E limit \in LimitArgs, action \in ActionArgs :
        \E results \in OrderedByDateDesc(Selects(history, tv_shows, _get_actions(action))) :
            /\ answer' = [limit |-> limit, action |-> action, results |-> results,
                          raised |-> Get(results, limit).raised,
                          value |-> Get(results, limit).value]
            /\ UNCHANGED <<history, tv_shows, otherThanHist>>

\* History.clear()
HistoryClear ==
    /\ history /= {}
    /\ history' = {}
    /\ UNCHANGED <<tv_shows, answer, otherThanHist>>

HistoryNext == HistoryGet \/ HistoryClear

SpecHistory == HistoryInit /\ [][HistoryNext]_vars

----------------------------------------------------------------------------
(* Properties of History.get, checked under SpecHistory *)

\* the most entries a call may return: the limit, none when the limit is
\* not a number or is negative
Allowed(limit) == IF limit.numeric /\ limit.n > 0 THEN limit.n ELSE 0

\* the action codes a call is restricted to: the downloaded ones, the
\* snatched ones, or all of them
Wanted(action) ==
    IF action.word = "downloaded" THEN QualityDOWNLOADED
    ELSE IF action.word = "snatched" THEN QualitySNATCHED
    ELSE HistoryActions

\* C28: History.get returns at most `limit` entries (none when the limit is
\* not a number or is negative), which are the newest of the history rows
\* joined to their shows, restricted to the downloaded or to the snatched
\* actions when the action says so in any case, and to none otherwise.
C28_GetReturnsNewestRowsUpToLimit ==
    answer /= <<>> =>
        /\ answer.raised = "none"
        /\ Len(answer.value) <= Allowed(answer.limit)
        /\ \A i \in DOMAIN answer.value :
               /\ answer.value[i].show_id \in DOMAIN tv_shows
               /\ \E r \in Range(answer.results) :
                      /\ r.action \in Wanted(answer.action)
                      /\ r.showid = answer.value[i].show_id
                      /\ r.episode = answer.value[i].episode

----------------------------------------------------------------------------
(* DailySearcher.run: episodes that have aired leave the UNAIRED status and *)
(* a daily search is queued                                                *)

\* try_int(show.runtime, 60): the runtime taken for a show that has none
DefaultRuntime == 60

\* datetime.date.today().toordinal(), and the time of day now, in minutes
Today == 10
NowMinute == 1240
MinutesPerDay == 1440

\* datetime.datetime.now(network_timezones.sb_timezone), in minutes
CurTime == Today * MinutesPerDay + NowMinute

\* the threads that may call run
Runners == {1, 2}

\* the time of day of show.airs, in minutes
AirsMinute(airs) == IF airs = "20:00" THEN 1200 ELSE 0

\* the shows sickbeard.showList may hold: show 1, once or twice, or none
ListedShows ==
    [indexerid : {1}, paused : BOOLEAN, airs : {"", "20:00"},
     network : {"", "NBC"}, runtime : {NotNumeric, IntArg(30)},
     default_ep_status : {"WANTED"}]
ShowLists ==
    {<<>>} \cup {<<s>> : s \in ListedShows}
           \cup {<<s, s>> : s \in {t \in ListedShows : ~t.paused /\ t.airs = "" /\ ~t.runtime.numeric}}

\* the episodes: a special of season 0 and an episode of season 1, of show 1
\* or of show 2, which is never loaded
EpisodeSlots == {1, 2}
AirDates == {1, Today, Today + 2}
EpisodeTables ==
    {[e \in EpisodeSlots |-> [showid |-> sid[e], airdate |-> ad[e], season |-> e - 1,
                              episode |-> 1, status |-> st[e]]] :
        sid \in [EpisodeSlots -> {1, 2}], ad \in [EpisodeSlots -> AirDates],
        st \in [EpisodeSlots -> {"UNAIRED", "WANTED"}]}

\* no Show object
NoShow == <<>>

\* Show.find(sickbeard.showList, indexer_id): None, the show, or
\* MultipleShowObjectsException
ShowFind(list, id) ==
    LET at == {i \in DOMAIN list : list[i].indexerid = id}
    IN  IF at = {} THEN [raised |-> FALSE, show |-> NoShow]
        ELSE IF Cardinality(at) = 1 THEN [raised |-> FALSE, show |-> list[CHOOSE i \in at : TRUE]]
        ELSE [raised |-> TRUE, show |-> NoShow]

\* SELECT showid, airdate, season, episode FROM tv_episodes
\* WHERE status = UNAIRED AND (airdate <= curDate and airdate > 1)
SqlResults(eps, curDate) ==
    {e \in DOMAIN eps : /\ eps[e].status = "UNAIRED"
                        /\ eps[e].airdate <= curDate
                        /\ eps[e].airdate > 1}

\* the orders the rows may come in
RowOrders(rows) ==
    {s \in [1..Cardinality(rows) -> rows] : \A i, j \in DOMAIN s : i /= j => s[i] /= s[j]}

\* parse_date_time(airdate, show.airs, show.network) + timedelta(minutes=try_int(show.runtime, 60))
EndTime(airdate, show) ==
    airdate * MinutesPerDay + AirsMinute(show.airs) + try_int(show.runtime, DefaultRuntime)

\* the status given to an episode that has aired
AiredStatusDefaultOnly(season, show) == show.default_ep_status
AiredStatus(season, show) == IF season = 0 THEN "SKIPPED" ELSE show.default_ep_status

\* show.getEpisode(season, episode)
GetEpisode(eps, show, season, episode) ==
    CHOOSE e \in DOMAIN eps :
        /\ eps[e].showid = show.indexerid
        /\ eps[e].season = season
        /\ eps[e].episode = episode

\* the loop over sql_results, from the rows left, with the show of the row
\* before
RECURSIVE DailyLoop(_, _, _, _, _)
DailyLoop(rows, show, eps, sql_l, list) ==
    IF rows = <<>> THEN [eps |-> eps, sql_l |-> sql_l]
    ELSE
        LET sqlEp == eps[Head(rows)]
            looked == IF show = NoShow \/ sqlEp.showid /= show.indexerid
                     THEN ShowFind(list, sqlEp.showid)
                     ELSE [raised |-> FALSE, show |-> show]
            cur == IF looked.raised THEN show ELSE looked.show
        IN  IF looked.raised \/ cur = NoShow \/ cur.paused
            THEN DailyLoop(Tail(rows), cur, eps, sql_l, list)
            ELSE IF /\ cur.airs /= "" /\ cur.network /= ""
                    /\ EndTime(sqlEp.airdate, cur) > CurTime
            THEN DailyLoop(Tail(rows), cur, eps, sql_l, list)
            ELSE
                LET ep == GetEpisode(eps, cur, sqlEp.season, sqlEp.episode)
                IN  DailyLoop(Tail(rows), cur,
                        [eps EXCEPT ![ep].status = AiredStatus(eps[ep].season, cur)],
                        Append(sql_l, ep), list)

\* what is added to the search queue at the end of a run
QueueItemsWhenUpdated(sql_l) == IF sql_l = <<>> THEN <<>> ELSE <<"DailySearchQueueItem">>
QueueItems(sql_l) == <<"DailySearchQueueItem">>

\* a thread that has not called run, or whose call starts
Fresh(at) == [pc |-> at, skipped |-> FALSE, curDate |-> 0, added |-> <<>>,
              wrote |-> <<>>, updated |-> {}]

\* the searcher is built; shows and episodes are loaded; nobody runs
DailyInit ==
    /\ amActive = FALSE
    /\ network_dict \in BOOLEAN
    /\ showList \in ShowLists
    /\ tv_episodes \in EpisodeTables
    /\ runner = [t \in Runners |-> Fresh("ready")]
    /\ shows = <<>>
    /\ _stack = <<>>
    /\ _lastgc = 0
    /\ now = 0
    /\ op = "init"
    /\ arg = 0
    /\ gc = FALSE
    /\ raised = FALSE
    /\ result = 0
    /\ nextKey = 1
    /\ nextShow = 1
    /\ reinserted = {}
    /\ requests = 0
    /\ got = <<>>
    /\ tries = 0
    /\ delay = 0
    /\ backoff = 0
    /\ f = <<>>
    /\ mtries = 0
    /\ mdelay = 0
    /\ pc = "idle"
    /\ calls = 0
    /\ slept = <<>>
    /\ events = <<>>
    /\ outcome = "none"
    /\ retval = 0
    /\ transport = <<>>
    /\ via = "none"
    /\ surfaced = "none"
    /\ subject = <<>>
    /\ indexed = <<>>
    /\ dvdorder = FALSE
    /\ epsBody = "none"
    /\ episodes = <<>>
    /\ idx = 0
    /\ heap = <<>>
    /\ warnings = 0
    /\ error = "none"
    /\ stage = "idle"
    /\ catalog = <<>>
    /\ selected = 0
    /\ merged = <<>>
    /\ custom_ui = "none"
    /\ ui = "not invoked"
    /\ valuesOrder = <<>>
    /\ found = <<>>
    /\ actors_enabled = FALSE
    /\ upstream = <<>>
    /\ normalizer = "none"
    /\ normalized = <<>>
    /\ caller = <<>>
    /\ history = {}
    /\ tv_shows = <<>>
    /\ answer = <<>>
    /\ params_getSeries = ""
    /\ searcher = <<>>

\* if self.amActive: return
DailySkipped ==
    \E t \in Runners :
        /\ runner[t].pc \in {"ready", "returned", "raised"}
        /\ amActive
        /\ runner' = [runner EXCEPT ![t] = [Fresh("returned") EXCEPT !.skipped = TRUE]]
        /\ UNCHANGED <<amActive, network_dict, showList, tv_episodes, otherThanDaily>>

\* the guard is passed
DailyGuardPassed ==
    \E t \in Runners :
        /\ runner[t].pc \in {"ready", "returned", "raised"}
        /\ ~amActive
        /\ runner' = [runner EXCEPT ![t] = Fresh("activate")]
        /\ UNCHANGED <<amActive, network_dict, showList, tv_episodes, otherThanDaily>>

\* self.amActive = True
DailyActivate ==
    \E t \in Runners :
        /\ runner[t].pc = "activate"
        /\ amActive' = TRUE
        /\ runner' = [runner EXCEPT ![t].pc = "body"]
        /\ UNCHANGED <<network_dict, showList, tv_episodes, otherThanDaily>>

\* from the update of the network dict to the queued search item
DailyBody ==
    \E t \in Runners, updated \in BOOLEAN :
        /\ runner[t].pc = "body"
        /\ network_dict' = (network_dict \/ updated)
        /\ LET curDate == IF network_dict' THEN Today + 1 ELSE Today + 2
           IN  \E rows \in RowOrders(SqlResults(tv_episodes, curDate)) :
                   LET done == DailyLoop(rows, NoShow, tv_episodes, <<>>, showList)
                   IN  /\ tv_episodes' = done.eps
                       /\ runner' = [runner EXCEPT ![t] =
                              [pc |-> "deactivate", skipped |-> FALSE, curDate |-> curDate,
                               added |-> QueueItems(done.sql_l),
                               wrote |-> IF Len(done.sql_l) > 0 THEN <<done.sql_l>> ELSE <<>>,
                               updated |-> Range(done.sql_l)]]
        /\ UNCHANGED <<amActive, showList, otherThanDaily>>

\* main_db_con.select raises: the exception leaves run
DailyBodyRaises ==
    \E t \in Runners, updated \in BOOLEAN :
        /\ runner[t].pc = "body"
        /\ network_dict' = (network_dict \/ updated)
        /\ runner' = [runner EXCEPT ![t].pc = "raised"]
        /\ UNCHANGED <<amActive, showList, tv_episodes, otherThanDaily>>

\* self.amActive = False
DailyDeactivate ==
    \E t \in Runners :
        /\ runner[t].pc = "deactivate"
        /\ amActive' = FALSE
        /\ runner' = [runner EXCEPT ![t].pc = "returned"]
        /\ UNCHANGED <<network_dict, showList, tv_episodes, otherThanDaily>>

DailyNext ==
    \/ DailySkipped \/ DailyGuardPassed \/ DailyActivate \/ DailyBody \/ DailyBodyRaises
    \/ DailyDeactivate

SpecDaily == DailyInit /\ [][DailyNext]_vars

----------------------------------------------------------------------------
(* Properties of DailySearcher.run, checked under SpecDaily *)

\* C29: a call of run that passed the guard and has come to its end has
\* added exactly one item to the search queue, whether or not it updated an
\* episode, and has written to the database only if it updated one; a call
\* the guard turned away has added no item and updated no episode.
C29_OneQueueItemPerCompletedRun ==
    \A t \in Runners :
        runner[t].pc = "returned" =>
            IF runner[t].skipped
            THEN runner[t].added = <<>> /\ runner[t].updated = {} /\ runner[t].wrote = <<>>
            ELSE /\ Len(runner[t].added) = 1
                 /\ runner[t].wrote /= <<>> => runner[t].updated /= {}

\* a completed run that updated nothing and still queued its item, next to
\* a call the guard turned away
C29_Witness ==
    \E t, u \in Runners :
        /\ runner[t].pc = "returned" /\ ~runner[t].skipped
        /\ runner[t].updated = {} /\ Len(runner[t].added) = 1
        /\ runner[u].pc = "returned" /\ runner[u].skipped

\* whether run is to change episode e, for the cut-off date of the run
IsDue(e, curDate) ==
    LET ep == tv_episodes[e]
        loaded == {i \in DOMAIN showList : showList[i].indexerid = ep.showid}
    IN  /\ ep.status = "UNAIRED"
        /\ ep.airdate > 1 /\ ep.airdate <= curDate
        /\ Cardinality(loaded) = 1
        /\ \A i \in loaded :
               /\ ~showList[i].paused
               /\ (showList[i].airs /= "" /\ showList[i].network /= "") =>
                      ep.airdate * MinutesPerDay + AirsMinute(showList[i].airs)
                        + (IF showList[i].runtime.numeric THEN showList[i].runtime.n
                           ELSE DefaultRuntime) <= CurTime

\* the status run is to give episode e
DueStatus(e) ==
    IF tv_episodes[e].season = 0 THEN "SKIPPED"
    ELSE showList[CHOOSE i \in DOMAIN showList :
                      showList[i].indexerid = tv_episodes[e].showid].default_ep_status

C35_AtMostOneRunInTheBody ==
    \A t, u \in Runners : (runner[t].pc = "body" /\ runner[u].pc = "body") => t = u

\* C36: once the invocations that passed the guard have ended, by return or
\* by an exception, amActive is false again, so that a later invocation is
\* not turned away.
C36_ActiveFlagIsClearedWhenRunEnds ==
    (\A t \in Runners : runner[t].pc \in {"ready", "returned", "raised"}) => ~amActive

----------------------------------------------------------------------------
(* getShow(sid) on a client other threads call getShow on for other ids: *)
(* the statements of _getShowData interleave with their insertions       *)

\* the episode list the upstream returns for the show: two episodes of
\* season 1, in broadcast order
SharedEpisodes ==
    <<[dvd_season |-> Null, dvd_episodenumber |-> Null,
       seasonnumber |-> Num(10), episodenumber |-> Num(10)],
      [dvd_season |-> Null, dvd_episodenumber |-> Null,
       seasonnumber |-> Num(10), episodenumber |-> Num(20)]>>

\* a new Show(): no data, no season
NewShow == [data |-> <<>>, tree |-> <<>>]

\* a new client without disc order and cast; the other callers ask for the
\* ids after IngestSid
SharedInit ==
    /\ dvdorder = FALSE
    /\ epsBody = "list"
    /\ episodes = SharedEpisodes
    /\ stage = "start"
    /\ actors_enabled = FALSE
    /\ nextKey = IngestSid + 1
    /\ shows = <<>>
    /\ _stack = <<>>
    /\ _lastgc = 0
    /\ now = 0
    /\ op = "init"
    /\ arg = 0
    /\ gc = FALSE
    /\ raised = FALSE
    /\ result = 0
    /\ nextShow = 1
    /\ reinserted = {}
    /\ requests = 0
    /\ got = <<>>
    /\ tries = 0
    /\ delay = 0
    /\ backoff = 0
    /\ f = <<>>
    /\ mtries = 0
    /\ mdelay = 0
    /\ pc = "idle"
    /\ calls = 0
    /\ slept = <<>>
    /\ events = <<>>
    /\ outcome = "none"
    /\ retval = 0
    /\ transport = <<>>
    /\ via = "none"
    /\ surfaced = "none"
    /\ subject = <<>>
    /\ indexed = <<>>
    /\ idx = 0
    /\ heap = <<>>
    /\ warnings = 0
    /\ error = "none"
    /\ catalog = <<>>
    /\ selected = 0
    /\ merged = <<>>
    /\ custom_ui = "none"
    /\ ui = "not invoked"
    /\ valuesOrder = <<>>
    /\ found = <<>>
    /\ upstream = <<>>
    /\ normalizer = "none"
    /\ normalized = <<>>
    /\ caller = <<>>
    /\ history = {}
    /\ tv_shows = <<>>
    /\ answer = <<>>
    /\ amActive = FALSE
    /\ network_dict = FALSE
    /\ showList = <<>>
    /\ tv_episodes = <<>>
    /\ runner = <<>>
    /\ params_getSeries = ""
    /\ searcher = <<>>

\* key not in self.shows: _getShowData calls get_show_by_id and stores every
\* field with _setShowData, the first of which inserts a new Show
SharedGetShowInfo ==
    /\ stage = "start"
    /\ LET c == SetShowData(Container, IngestSid, nextShow, now) IN
        /\ shows' = c.shows
        /\ _stack' = c.stack
        /\ _lastgc' = c.lastgc
        /\ raised' = c.raised
        /\ heap' = PutItem(heap, nextShow, [NewShow EXCEPT !.data = InfoData])
        /\ nextShow' = nextShow + 1
    /\ op' = "getshow"
    /\ arg' = IngestSid
    /\ stage' = "info"
    /\ UNCHANGED <<now, gc, result, nextKey, reinserted, dvdorder, epsBody,
                   episodes, idx, warnings, error, otherThanIngest>>

\* epsEt = self.episode_list(sid)
SharedGetEpisodeList ==
    /\ stage = "info"
    /\ idx' = 1
    /\ stage' = "eps"
    /\ UNCHANGED <<cacheVars, dvdorder, epsBody, episodes, heap, warnings, error,
                   otherThanIngest>>

\* one pass of `for cur_ep in episodes`: _setItem inserts a new Show when
\* self.shows does not hold sid, and stores the episode in the Show it holds
SharedIngestEpisode ==
    /\ stage = "eps"
    /\ idx \in DOMAIN episodes
    /\ LET ep == episodes[idx]
           pair == Resolved(dvdorder, ep)
           c == SetShowData(Container, IngestSid, nextShow, now)
           created == ~Cached(shows, IngestSid)
       IN
       /\ shows' = c.shows
       /\ _stack' = c.stack
       /\ _lastgc' = c.lastgc
       /\ raised' = c.raised
       /\ nextShow' = IF created THEN nextShow + 1 ELSE nextShow
       /\ IF c.raised
          THEN /\ error' = "KeyError"
               /\ stage' = "raised"
               /\ UNCHANGED <<idx, heap>>
          ELSE /\ heap' = LET h == IF created THEN PutItem(heap, nextShow, NewShow) ELSE heap
                          IN  [h EXCEPT ![c.shows[IngestSid]].tree =
                                  SetItems(@, IntFloat(pair[1]), IntFloat(pair[2]), ep)]
               /\ idx' = idx + 1
               /\ UNCHANGED <<error, stage>>
    /\ UNCHANGED <<now, op, arg, gc, result, nextKey, reinserted, dvdorder, epsBody,
                   episodes, warnings, otherThanIngest>>

\* the loop is over: _getShowData returns True, __getitem__ returns
\* self.shows[key], or raises KeyError when the key is not held
SharedGetShowReturns ==
    /\ stage = "eps"
    /\ idx \notin DOMAIN episodes
    /\ IF Cached(shows, IngestSid)
       THEN /\ result' = shows[IngestSid]
            /\ stage' = "returned"
            /\ UNCHANGED error
       ELSE /\ error' = "KeyError"
            /\ stage' = "raised"
            /\ UNCHANGED result
    /\ UNCHANGED <<shows, _stack, _lastgc, now, op, arg, gc, raised, nextKey, nextShow,
                   reinserted, dvdorder, epsBody, episodes, idx, heap, warnings,
                   otherThanIngest>>

\* another thread's getShow(key), for an id never asked for, inserts its new
\* Show while the call for IngestSid is under way
OtherGetShow ==
    \E key \in FreshKeys :
        LET c == SetItem(Container, key, nextShow, now) IN
        /\ stage \in {"info", "eps"}
        /\ shows' = c.shows
        /\ _stack' = c.stack
        /\ _lastgc' = c.lastgc
        /\ nextShow' = nextShow + 1
        /\ nextKey' = nextKey + 1
        /\ UNCHANGED <<now, op, arg, gc, raised, result, reinserted, dvdorder, epsBody,
                       episodes, idx, heap, warnings, error, stage, otherThanIngest>>

\* time passes while the call is under way
SharedTick ==
    \E d \in TickSteps :
        /\ stage \in {"start", "info", "eps"}
        /\ now + d <= MaxNow
        /\ now' = now + d
        /\ UNCHANGED <<shows, _stack, _lastgc, op, arg, gc, raised, result, nextKey,
                       nextShow, reinserted, ingestVars, otherThanIngest>>

SharedNext ==
    \/ SharedGetShowInfo \/ SharedGetEpisodeList \/ SharedIngestEpisode
    \/ SharedGetShowReturns \/ OtherGetShow \/ SharedTick

SpecShared == SharedInit /\ [][SharedNext]_vars

----------------------------------------------------------------------------
(* Properties of getShow among concurrent callers, checked under SpecShared *)

\* the episodes of the list, as _setItem stores them in an empty Show
RECURSIVE Populated(_, _)
Populated(tree, i) ==
    IF i > Len(SharedEpisodes) THEN tree
    ELSE Populated(SetItems(tree, SharedEpisodes[i].seasonnumber.tenths \div 10,
                            SharedEpisodes[i].episodenumber.tenths \div 10,
                            SharedEpisodes[i]), i + 1)

\* C33: whatever the other callers insert while getShow(sid) populates its
\* Show, the final read of the cache for sid does not fail and the Show
\* returned holds the scalar fields and the episodes stored during the call.
C33_ConcurrentCallsLoseNothingOfTheShow ==
    /\ stage /= "raised"
    /\ stage = "returned" =>
           /\ heap[result].data = InfoData
           /\ heap[result].tree = Populated(<<>>, 1)

----------------------------------------------------------------------------
(* TVmaze.search called by concurrent callers: the search term travels in *)
(* config['params_getSeries'], which the client holds once                *)

\* the threads that search, and the names they may search for
Searchers == {1, 2}
TermNames == {"a", "b"}

\* the candidates the upstream returns for the term a request carries
CandidatesFor(q) == <<[id |-> q, seriesname |-> q]>>

\* a thread that is not searching
NotSearching == [pc |-> "idle", name |-> "", mtries |-> 0, sent |-> "", received |-> <<>>]

\* a new client: params_getSeries is {"q": ""}
TermInit ==
    /\ params_getSeries = ""
    /\ searcher = [t \in Searchers |-> NotSearching]
    /\ shows = <<>>
    /\ _stack = <<>>
    /\ _lastgc = 0
    /\ now = 0
    /\ op = "init"
    /\ arg = 0
    /\ gc = FALSE
    /\ raised = FALSE
    /\ result = 0
    /\ nextKey = 1
    /\ nextShow = 1
    /\ reinserted = {}
    /\ requests = 0
    /\ got = <<>>
    /\ tries = 0
    /\ delay = 0
    /\ backoff = 0
    /\ f = <<>>
    /\ mtries = 0
    /\ mdelay = 0
    /\ pc = "idle"
    /\ calls = 0
    /\ slept = <<>>
    /\ events = <<>>
    /\ outcome = "none"
    /\ retval = 0
    /\ transport = <<>>
    /\ via = "none"
    /\ surfaced = "none"
    /\ subject = <<>>
    /\ indexed = <<>>
    /\ dvdorder = FALSE
    /\ epsBody = "none"
    /\ episodes = <<>>
    /\ idx = 0
    /\ heap = <<>>
    /\ warnings = 0
    /\ error = "none"
    /\ stage = "idle"
    /\ catalog = <<>>
    /\ selected = 0
    /\ merged = <<>>
    /\ custom_ui = "none"
    /\ ui = "not invoked"
    /\ valuesOrder = <<>>
    /\ found = <<>>
    /\ actors_enabled = FALSE
    /\ upstream = <<>>
    /\ normalizer = "none"
    /\ normalized = <<>>
    /\ caller = <<>>
    /\ history = {}
    /\ tv_shows = <<>>
    /\ answer = <<>>
    /\ amActive = FALSE
    /\ network_dict = FALSE
    /\ showList = <<>>
    /\ tv_episodes = <<>>
    /\ runner = <<>>

\* search(series) is called
TermCall ==
    \E t \in Searchers, name \in TermNames :
        /\ searcher[t].pc \in {"idle", "done", "failed"}
        /\ searcher' = [searcher EXCEPT ![t] = [NotSearching EXCEPT !.pc = "assign", !.name = name]]
        /\ UNCHANGED <<params_getSeries, otherThanTerm>>

\* self.config['params_getSeries']['q'] = series
TermAssign ==
    \E t \in Searchers :
        /\ searcher[t].pc = "assign"
        /\ params_getSeries' = searcher[t].name
        /\ searcher' = [searcher EXCEPT ![t].pc = "load", ![t].mtries = DefaultTries]
        /\ UNCHANGED otherThanTerm

\* one attempt of _loadUrl under @retry: session.get(url, params=params)
\* sends what the dict holds now; a failed attempt is repeated while
\* attempts are left
TermLoad ==
    \E t \in Searchers, ok \in BOOLEAN :
        /\ searcher[t].pc = "load"
        /\ searcher' = [searcher EXCEPT ![t] =
               IF ok THEN [@ EXCEPT !.pc = "done", !.sent = params_getSeries,
                                    !.received = CandidatesFor(params_getSeries)]
               ELSE IF KeepTrying(@.mtries) THEN [@ EXCEPT !.mtries = @ - 1]
               ELSE [@ EXCEPT !.pc = "failed"]]
        /\ UNCHANGED <<params_getSeries, otherThanTerm>>

TermNext == TermCall \/ TermAssign \/ TermLoad

SpecTerm == TermInit /\ [][TermNext]_vars

----------------------------------------------------------------------------
(* Properties of concurrent searches, checked under SpecTerm *)

\* C34: the request of every caller carries the name that caller searched
\* for, and the caller receives the candidates for that name, whatever
\* another caller searches for at the same time.
C34_EachSearchCarriesItsOwnTerm ==
    \A t \in Searchers :
        searcher[t].pc = "done" =>
            /\ searcher[t].sent = searcher[t].name
            /\ searcher[t].received = <<[id |-> searcher[t].name, seriesname |-> searcher[t].name]>>

====
